---- MODULE Spec2Model ----
(***************************************************************************)
(* Verification model of the m87 remote-access relay: tunnel tokens, the   *)
(* server's control-session map and forward registry, the forward proxy    *)
(* path, the agent's substream handler and its exec/terminal sessions,     *)
(* the metrics hub, the agent daemon, certificate renewal, agent records   *)
(* and authorization requests.                                             *)
(*                                                                         *)
(* The module holds several specifications, one per part of the program.   *)
(* Each specification moves its own variables and leaves the others at     *)
(* their initial value.                                                    *)
(*   SpecToken    : issue_tunnel_token / verify_tunnel_token               *)
(*   Spec         : control handshakes, the session map, forward           *)
(*                  connections up to the start of the byte copy           *)
(*   SpecEvict    : Spec for one agent with valid tokens only, with the    *)
(*                  fairness of the runtime's scheduler                    *)
(*   SpecDeath    : SpecEvict where byte copies end and dead sessions      *)
(*                  clean up                                               *)
(*   SpecForward  : forward connections against a changing registry        *)
(*   SpecRegistry : request_public_url and the forward registry            *)
(*   SpecProxy    : the bytes of one forward substream, from the server's  *)
(*                  port header to the agent's local connection and back   *)
(*   SpecSni      : the TLS accept loop's dispatch on the SNI              *)
(*   SpecExec     : one exec or terminal session of the agent, from the    *)
(*                  spawn of the child to the shutdown of the stream       *)
(*   SpecInput    : the client-to-PTY direction of a PTY session: resize   *)
(*                  frames and input bytes                                 *)
(*   SpecHub      : the agent's metrics topic: producer, broadcast queue,  *)
(*                  subscribed handlers                                    *)
(*   SpecAgent    : the agent daemon: registration, the control-tunnel     *)
(*                  loop, SIGINT                                           *)
(*   SpecShutdown : the agent's substream handlers around a SIGINT         *)
(*   SpecCert     : renewal runs of the server's wildcard certificate      *)
(*   SpecNode     : create and update of agent records                     *)
(*   SpecAuth     : an agent's authorization request: approval and the     *)
(*                  checks that turn it into an API key and a record       *)
(*   SpecDemux    : the agent's substream handler on a first line longer   *)
(*                  than its peek buffer                                   *)
(*   SpecLine     : read_line of the control handshake and of the exec     *)
(*                  config                                                 *)
(*   SpecShell    : build_shell_args                                       *)
(*   SpecLock     : the session mutex shared by forward connections        *)
(***************************************************************************)
EXTENDS Integers, Sequences, FiniteSets, TLC

VARIABLES
    \* ---- SpecToken ----
    tnow,       \* Utc::now().timestamp()
    tissued,    \* the token handed out by issue_tunnel_token, with what it was issued for
    tverified,  \* the verify_tunnel_token call made on it, with its result (a set of 0 or 1)
    \* ---- Spec, SpecRegistry (the server's relay) ----
    ctl,        \* control connections: handler position, handshake line, session flags
    tunnels,    \* RelayState.tunnels: the pairs <<node_id, session>> registered
    forwards,   \* RelayState.forwards: the forward mappings registered
    urls,       \* per sni_host: the mapping of the last public URL returned for it,
                \* and whether one had been returned before
    fwd,        \* inbound forward connections: handler position and locals
    \* ---- SpecProxy (one forward substream) ----
    srv,        \* server side: handle_forward_connection from line 242 on, and the
                \* operator's connection (inbound)
    sub,        \* the yamux substream: the bytes written in each direction
    agt,        \* agent side: the stream handler of connect_control_tunnel, and the
                \* local service's connection (local)
    \* ---- SpecSni (the TLS listener) ----
    tls,        \* serve, tls_task: the connections accepted, with their SNI and
                \* where they went
    \* ---- SpecExec (one exec or terminal session on the agent) ----
    ex,         \* handle_exec_io / handle_terminal_io: handler position, child,
                \* PTY, threads and channels
    wire,       \* what the handler has written to the substream, in order
    \* ---- SpecInput (client input of one PTY session) ----
    inp,        \* the client-to-PTY direction of handle_terminal_io and
                \* run_with_pty: the client's stream, input_buf, the PTY
    \* ---- SpecHub (the shared-producer hub of the agent) ----
    hub,        \* per topic: subscriber count, producer task, number of messages broadcast
    subs,       \* the metrics handlers: position, receiver cursor, whether recv reported lag
    \* ---- SpecAgent (the agent process: supervisor, control sessions, handlers) ----
    clk,        \* seconds since the agent started
    cancelled,  \* SHUTDOWN, the process-wide cancellation token
    proc,       \* the agent process: running, or exited after run() returned
    sup,        \* login_and_run: position, sleep deadline, attempts made, last result
    stasks,     \* the session tasks spawned by connect_control_tunnel, in order
    hs,         \* one substream handler of each kind: task, substream, child process
    \* ---- SpecCert (certificate renewal on the server) ----
    cnow,       \* Utc::now(), in hours
    certs,      \* the certificate directory: fullchain.pem, privkey.pem, last_failure
    renew,      \* maybe_renew_wildcard: position, what its checks find, attempts, result
    \* ---- SpecNode (agent records in the database) ----
    docs,       \* the nodes collection: per id, whether a record exists and its scopes
    \* ---- SpecAuth (agent authorization requests on the server) ----
    areq,       \* the auth request of one agent: pending, approved, declined or consumed
    akeys,      \* the api_keys collection: the keys created for the agent
    anode,      \* the agent's record in the nodes collection and the key it references
    chk,        \* the invocations of check_auth_request: position, response, key returned
    \* ---- SpecLine (the first line of a connection, read with read_line) ----
    rdl,        \* one handler reading its first line: the peer's bytes, its String, the outcome
    \* ---- SpecShell (the argument vector of the shell an agent starts) ----
    shl,        \* one call of build_shell_args: shell path, mode, command, the arguments built
    \* ---- SpecLock (forward connections sharing one control session) ----
    mtx,        \* the mutex of the agent's session: the connection whose handler holds it, or 0
    fc,         \* the forward connections to the agent: position of the handler, bytes copied
    stalled     \* the agent does not take bytes from its substreams (slow agent, window used up)

tokenVars == <<tnow, tissued, tverified>>
relayVars == <<ctl, tunnels, forwards, urls, fwd>>
proxyVars == <<srv, sub, agt>>
sniVars == <<tls>>
execVars == <<ex, wire>>
inputVars == <<inp>>
hubVars == <<hub, subs>>
agentVars == <<clk, cancelled, proc, sup, stasks, hs>>
certVars == <<cnow, certs, renew>>
nodeVars == <<docs>>
authVars == <<areq, akeys, anode, chk>>
lineVars == <<rdl>>
shellVars == <<shl>>
lockVars == <<mtx, fc, stalled>>
vars == <<tokenVars, relayVars, proxyVars, sniVars, execVars, inputVars, hubVars, agentVars, certVars, nodeVars, authVars, lineVars, shellVars, lockVars>>

None == "none"

(***************************************************************************)
(* Strings.  A string is a sequence of elements.  An element is a plain    *)
(* character, the decimal rendering of an integer (kept as one element:    *)
(* i64 Display and FromStr are inverse on it and it holds no '|'), or the  *)
(* hex rendering of an HMAC tag (one element, no '|' either).              *)
(***************************************************************************)
Ch(c) == [k |-> "c", c |-> c, n |-> 0, h |-> <<>>]
Num(n) == [k |-> "n", c |-> "", n |-> n, h |-> <<>>]
Hex(tag) == [k |-> "h", c |-> "", n |-> 0, h |-> tag]
Bar == Ch("|")

Str(s) == [i \in 1..Len(s) |-> Ch(s[i])]

\* str::split(sep): the pieces between the separators, always at least one piece
RECURSIVE Split(_, _)
Split(s, sep) ==
    IF \A i \in 1..Len(s) : s[i] # sep
    THEN <<s>>
    ELSE LET k == CHOOSE i \in 1..Len(s) : s[i] = sep /\ \A j \in 1..(i - 1) : s[j] # sep
         IN  <<SubSeq(s, 1, k - 1)>> \o Split(SubSeq(s, k + 1, Len(s)), sep)

\* HMAC-SHA256 as an ideal MAC: the tag determines the key and the message
HmacSha256(secret, msg) == <<secret, msg>>

\* URL_SAFE_NO_PAD.encode / decode; Garbage is a string that is no base64
Garbage == [b64 |-> FALSE, raw |-> <<>>]
B64Encode(raw) == [b64 |-> TRUE, raw |-> raw]

Err == [ok |-> FALSE, id |-> <<>>]
Ok(id) == [ok |-> TRUE, id |-> id]

\* format!("{}|{}", node_id, expiry)
TokenPayload(node_id, expiry) == node_id \o <<Bar, Num(expiry)>>

\* issue_tunnel_token, with Utc::now().timestamp() = now
IssueTunnelToken(node_id, ttl_secs, secret, now) ==
    LET expiry == now + ttl_secs
        payload == TokenPayload(node_id, expiry)
        signature == HmacSha256(secret, payload)
    IN  B64Encode(payload \o <<Bar, Hex(signature)>>)

\* `Utc::now().timestamp() > expiry`: the token is refused as expired
ExpiredOffByOne(now, expiry) == now >= expiry
Expired(now, expiry) == now > expiry

\* verify_tunnel_token, with Utc::now().timestamp() = now
VerifyTunnelToken(token_b64, secret, now) ==
    IF ~token_b64.b64 THEN Err
    ELSE LET parts == Split(token_b64.raw, Bar) IN
         IF Len(parts) # 3 THEN Err
         ELSE LET node_id == parts[1]
                  exp == parts[2]
                  sig_hex == parts[3]
              IN  IF ~(Len(exp) = 1 /\ exp[1].k = "n") THEN Err
                  ELSE IF Expired(now, exp[1].n) THEN Err
                  ELSE IF ~(Len(sig_hex) = 1 /\ sig_hex[1].k = "h") THEN Err
                  ELSE IF HmacSha256(secret, TokenPayload(node_id, exp[1].n)) # sig_hex[1].h
                       THEN Err
                  ELSE Ok(node_id)

\* Bounds of the token inputs
MaxIdLen == 2
MaxTtl == 2
MaxTime == 3

(***************************************************************************)
(* The server's relay: control handshakes and the session map.             *)
(***************************************************************************)
MaxCtl == 2
MaxFwd == 1

CtlIds == 1..MaxCtl
FwdIds == 1..MaxFwd
AgentA == Str(<<"a">>)
AgentB == Str(<<"b">>)
Agents == {AgentA, AgentB}
ForwardSecret == "s1"
Ips == {"10.0.0.1", "10.0.0.2"}
PublicAddress == "example.test"

\* One whitespace-separated part of the handshake line, "key=value" or a bare word
Part(key, id, tok) == [key |-> key, id |-> id, tok |-> tok]
EmptyToken == B64Encode(<<>>)
NoPart == Part("", <<>>, EmptyToken)

\* extract_kv(line, key).unwrap_or_default(): the first part that starts with "key="
ExtractKv(parts, key) ==
    IF \E i \in 1..Len(parts) : parts[i].key = key
    THEN parts[CHOOSE i \in 1..Len(parts) :
                  parts[i].key = key /\ \A j \in 1..(i - 1) : parts[j].key # key]
    ELSE NoPart

\* The handshake lines a peer may send.  `kind` says how the line was built
\* and is read by the properties only.
HsLine(kind, eof, parts) == [kind |-> kind, eof |-> eof, parts |-> parts]
OtherAgent(a) == IF a = AgentA THEN AgentB ELSE AgentA
GoodLine(a, now) ==
    HsLine("valid", FALSE,
           <<Part("M87", <<>>, EmptyToken), Part("node_id", a, EmptyToken),
             Part("token", <<>>, IssueTunnelToken(a, MaxTtl, ForwardSecret, now))>>)
BadLines(a, now) ==
    { HsLine("expired", FALSE,
             <<Part("M87", <<>>, EmptyToken), Part("node_id", a, EmptyToken),
               Part("token", <<>>, IssueTunnelToken(a, 0, ForwardSecret, 0))>>),
      HsLine("wrongsig", FALSE,
             <<Part("M87", <<>>, EmptyToken), Part("node_id", a, EmptyToken),
               Part("token", <<>>, IssueTunnelToken(a, MaxTtl, "s2", now))>>),
      HsLine("mismatch", FALSE,
             <<Part("M87", <<>>, EmptyToken), Part("node_id", a, EmptyToken),
               Part("token", <<>>,
                    IssueTunnelToken(OtherAgent(a), MaxTtl, ForwardSecret, now))>>),
      HsLine("malformed", FALSE,
             <<Part("M87", <<>>, EmptyToken), Part("node_id", a, EmptyToken),
               Part("token", <<>>, Garbage)>>),
      HsLine("missing", FALSE,
             <<Part("M87", <<>>, EmptyToken), Part("node_id", a, EmptyToken)>>),
      HsLine("eof", TRUE, <<>>) }
NoLine == HsLine("none", TRUE, <<>>)

\* handle_control_tunnel, lines 183-189: the token verifies and names this node
TokenOkAnyNode(node_id, token, secret, now) ==
    VerifyTunnelToken(token, secret, now).ok
TokenOk(node_id, token, secret, now) ==
    LET r == VerifyTunnelToken(token, secret, now)
    IN  r.ok /\ r.id = node_id

\* handle_control_tunnel, lines 171-189: TRUE when the handshake is accepted
HandshakeAccepted(line, secret, now) ==
    LET node_id == ExtractKv(line.parts, "node_id").id
        token == ExtractKv(line.parts, "token").tok
    IN  /\ ~line.eof
        /\ node_id # <<>>
        /\ token # EmptyToken
        /\ TokenOk(node_id, token, secret, now)

NodeIdOf(line) == ExtractKv(line.parts, "node_id").id

\* tunnels.remove(&node_id)
TunnelsRemove(tn, node_id) == {e \in tn : e[1] # node_id}

\* RelayState::register_tunnel: HashMap insert, the new session takes the key
RegisterTunnelKeepOld(tn, node_id, c) == tn \cup {<<node_id, c>>}
RegisterTunnel(tn, node_id, c) == {e \in tn : e[1] # node_id} \cup {<<node_id, c>>}

\* RelayState::get_tunnel: the session registered for node_id, or None
GetTunnel(tn, node_id) ==
    IF \E e \in tn : e[1] = node_id
    THEN (CHOOSE e \in tn : e[1] = node_id)[2]
    ELSE 0

\* A dead session leaves the map only if the map still points to it
RemoveDeadByKey(tn, node_id, c) == {e \in tn : e[1] # node_id}
RemoveDeadNever(tn, node_id, c) == tn
RemoveDead(tn, node_id, c) == tn \ {<<node_id, c>>}

(***************************************************************************)
(* The forward registry.                                                   *)
(***************************************************************************)
SomeIps(s) == [some |-> TRUE, ips |-> s]
NoIps == [some |-> FALSE, ips |-> {}]
Meta(host, node_id, port, ips) ==
    [host |-> host, node_id |-> node_id, target_port |-> port, allowed_ips |-> ips]
NoMeta == Meta(<<>>, <<>>, 0, NoIps)

\* short_node_id: the first 6 hex digits of SHA-256(node_id), taken as injective
ShortNodeId(node_id) == <<"sha6", node_id>>

\* request_public_url, lines 285-288: the labels of the SNI host name
SniHost(name, short_id) ==
    IF Len(name) = 0
    THEN <<short_id, PublicAddress>>
    ELSE <<name, short_id, PublicAddress>>

Names == {"", "ssh"}
AllHosts == {SniHost(Str(IF n = "" THEN <<>> ELSE <<n>>), ShortNodeId(a)) : n \in Names, a \in Agents}

\* RelayState::register_forward: upsert of sni_host -> {node_id, target_port, allowed_ips}
RegisterForwardKeepFirst(fw, host, node_id, port, ips) ==
    IF \E e \in fw : e.host = host THEN fw ELSE fw \cup {Meta(host, node_id, port, ips)}
RegisterForward(fw, host, node_id, port, ips) ==
    {e \in fw : e.host # host} \cup {Meta(host, node_id, port, ips)}

\* request_public_url, lines 289-291: what the call leaves in the registry
RequestPublicUrlSkipsRegister(fw, node_id, name, port, ips) == fw
RequestPublicUrlForwards(fw, node_id, name, port, ips) ==
    RegisterForward(fw, SniHost(name, ShortNodeId(node_id)), node_id, port, ips)

\* relay.forwards.read().await.get(&host).cloned()
ForwardsGet(fw, host) ==
    IF \E e \in fw : e.host = host THEN CHOOSE e \in fw : e.host = host ELSE NoMeta

\* handle_forward_connection, lines 210-221: TRUE when the whitelist blocks the peer
AclBlocks(fw, host, peer) ==
    /\ peer # "err"
    /\ LET meta == ForwardsGet(fw, host)
       IN  meta # NoMeta /\ meta.allowed_ips.some /\ peer \notin meta.allowed_ips.ips

(***************************************************************************)
(* State of the relay and its initial value.                               *)
(***************************************************************************)
Conn(pc, line, closed, wrote) ==
    [pc |-> pc, line |-> line, closed |-> closed, wrote |-> wrote]
Fwd(pc, host, peer, meta, sess) ==
    [pc |-> pc, host |-> host, peer |-> peer, meta |-> meta, sess |-> sess]

RelayIdle ==
    /\ ctl = [c \in CtlIds |-> Conn("idle", NoLine, FALSE, FALSE)]
    /\ tunnels = {}
    /\ forwards = {}
    /\ urls = [h \in AllHosts |-> [meta |-> NoMeta, again |-> FALSE]]
    /\ fwd = [f \in FwdIds |-> Fwd("idle", <<>>, "err", NoMeta, 0)]

\* The forward handlers that hold a clone of the session's Arc (lines 232-250)
HeldByProxyToo(fw, c) ==
    \E f \in FwdIds : fw[f].sess = c /\ fw[f].pc \in {"lock", "header", "proxy"}
Held(fw, c) == \E f \in FwdIds : fw[f].sess = c /\ fw[f].pc \in {"lock", "header"}

\* Arc<Mutex<Session>>: a session that is in neither the map nor a handler's
\* hands is dropped, which closes its transport
DropUnreferenced(ct, tn, fw) ==
    [c \in CtlIds |->
        IF /\ ct[c].pc = "done"
           /\ \A e \in tn : e[2] # c
           /\ ~Held(fw, c)
        THEN [ct[c] EXCEPT !.closed = TRUE]
        ELSE ct[c]]

(***************************************************************************)
(* State of one forward substream and its initial value.                   *)
(***************************************************************************)
Srv(pc, port, sent, inbound, up, down, out, outEof) ==
    [pc |-> pc, port |-> port, sent |-> sent, inbound |-> inbound, up |-> up,
     down |-> down, out |-> out, outEof |-> outEof]
Sub(s2a, s2aFin, a2s, a2sFin, rst) ==
    [s2a |-> s2a, s2aFin |-> s2aFin, a2s |-> a2s, a2sFin |-> a2sFin, rst |-> rst]
Agt(pc, port, up, localIn, localEof, reply, localOut) ==
    [pc |-> pc, port |-> port, up |-> up, localIn |-> localIn,
     localEof |-> localEof, reply |-> reply, localOut |-> localOut]

NoSub == Sub(<<>>, FALSE, <<>>, FALSE, FALSE)

ProxyIdle ==
    /\ srv = Srv("idle", 0, <<>>, <<>>, 0, 0, <<>>, FALSE)
    /\ sub = NoSub
    /\ agt = Agt("idle", 0, 0, <<>>, FALSE, <<>>, <<>>)

(***************************************************************************)
(* The connections accepted by the TLS listener.                           *)
(***************************************************************************)
Tls(sni, to, id) == [sni |-> sni, to |-> to, id |-> id]

TlsIdle == tls = {}


(***************************************************************************)
(* State of one exec or terminal session and its initial value.            *)
(***************************************************************************)
\* something written to the substream: output bytes, a plaintext line, or
\* the exit-code record
Wr(k, b, n) == [k |-> k, b |-> b, n |-> n]
OutBytes(b) == Wr("out", b, 0)
TextLine(b) == Wr("line", b, 0)
ExitRecord(code) == Wr("exit", "", code)

Ex(mode, pend, hup) ==
    [mode |-> mode,       \* "piped", "pty" (exec.rs) or "terminal" (terminal.rs)
     pc |-> "idle",       \* position of the handler
     child |-> "none",    \* "none", "running", "exited", "reaped"
     cstat |-> 0,         \* the status the child exited with
     hup |-> hup,         \* the child exits when it receives SIGHUP
     pend |-> pend,       \* output the child will still produce
     pty |-> <<>>,        \* output produced and not yet read by the reader task
     queue |-> <<>>,      \* out_rx / pty_rx: output queued for the client
     obroke |-> FALSE,    \* output_task has ended on a write error
     master |-> "none",   \* the PTY pair: "none", "open", "dropped"
     lock |-> "free",     \* child_arc: "free", "wait" (wait thread), "main"
     wt |-> "none",       \* the wait thread: "none", "init", "waiting", "done"
     exitch |-> <<>>,     \* exit_rx
     code |-> -1,         \* exit_code.unwrap_or(-1)
     killed |-> FALSE,    \* kill() has been called on the child
     ran |-> FALSE,       \* the command was spawned
     client |-> "open",   \* the client's end: "open", "eof", "gone"
     shut |-> FALSE]      \* the substream writer has been shut down

ExecIdle ==
    /\ ex = Ex("piped", <<>>, TRUE)
    /\ wire = <<>>

(***************************************************************************)
(* State of the client-to-PTY direction of one PTY session.                *)
(***************************************************************************)
Inp(mode, items, net) ==
    [mode |-> mode,     \* "terminal" (terminal.rs) or "pty" (exec.rs)
     pc |-> "idle",     \* "first5", "select", "parse", "closed"
     items |-> items,   \* what the client sends: resize frames and plain bytes
     net |-> net,       \* the bytes of it that the handler has not read yet
     pos |-> 0,         \* the number of bytes read so far
     buf |-> <<>>,      \* input_buf
     shell |-> <<>>,    \* the bytes written to the PTY
     init |-> <<0, 0>>, \* the size the PTY was opened with
     sizes |-> <<>>]    \* the sizes of the resize calls, in order

InputIdle == inp = Inp("pty", <<>>, <<>>)

\* ---- the shared-producer hub and its subscribers ----
Hub(count, producer, sent) == [count |-> count, producer |-> producer, sent |-> sent]
Subscriber(pc, cursor) == [pc |-> pc, cursor |-> cursor, lagged |-> FALSE]
MaxSubs == 2
SubIds == 1..MaxSubs
HubIdle ==
    /\ hub = Hub(0, "stopped", 0)
    /\ subs = [s \in SubIds |-> Subscriber("idle", 0)]

\* ---- the agent process ----
Sup(pc) ==
    [pc |-> pc, wake |-> 0, regs |-> 0, conns |-> 0, res |-> "none", ret |-> 0,
     at |-> "none"]
SessTask(st, ended) == [st |-> st, ended |-> ended, retried |-> FALSE]
Handler(st, stream, child) == [st |-> st, stream |-> stream, child |-> child]
HKinds == {"tcp", "piped", "pty", "terminal", "metrics"}
AgentIdle ==
    /\ clk = 0
    /\ cancelled = FALSE
    /\ proc = "running"
    /\ sup = Sup("idle")
    /\ stasks = <<>>
    /\ hs = [k \in HKinds |-> Handler("none", "none", "none")]

\* ---- certificate renewal ----
PemFile(ver, complete) == [ver |-> ver, complete |-> complete]
NoFailure == [exists |-> FALSE, ts |-> 0]
FailureAt(ts) == [exists |-> TRUE, ts |-> ts]
CertDir(fullchain, privkey, last_failure) ==
    [fullchain |-> fullchain, privkey |-> privkey, last_failure |-> last_failure]
Env(valid, a, txt) == [valid |-> valid, a |-> a, txt |-> txt]
Renew(pc) ==
    [pc |-> pc, runs |-> 0, attempts |-> 0, env |-> Env(FALSE, FALSE, FALSE),
     attempted |-> FALSE, result |-> "none", why |-> "none", before |-> NoFailure]
CertIdle ==
    /\ cnow = 0
    /\ certs = CertDir(PemFile(0, TRUE), PemFile(0, TRUE), NoFailure)
    /\ renew = Renew("idle")

\* ---- agent records ----
DocIds == {"a1", "b2"}
NoDoc == [exists |-> FALSE, owner_scope |-> <<"none", "">>, allowed_scopes |-> <<>>]
NodeDoc(owner_scope, allowed_scopes) ==
    [exists |-> TRUE, owner_scope |-> owner_scope, allowed_scopes |-> allowed_scopes]
NodeIdle == docs = [id \in DocIds |-> NoDoc]

\* ---- agent authorization requests ----
MaxChecks == 2
Checks == 1..MaxChecks
NoKey == 0
NoNode == [exists |-> FALSE, api_key_id |-> NoKey]
Check(pc, res, key) == [pc |-> pc, res |-> res, key |-> key]
AuthIdle ==
    /\ areq = "pending"
    /\ akeys = {}
    /\ anode = NoNode
    /\ chk = [i \in Checks |-> Check("idle", "none", NoKey)]

\* ---- the first line of a control connection or of an exec substream ----
\* total: the bytes the peer sends before the newline; sent, nl, eof: what it
\* has sent so far; line: the bytes read_line has appended to its String
Rdl(handler, total, valid) ==
    [handler |-> handler, total |-> total, valid |-> valid, sent |-> 0,
     nl |-> FALSE, eof |-> FALSE, pc |-> "read", line |-> 0, n |-> 0,
     outcome |-> "none"]
LineIdle == rdl = [Rdl("none", 0, FALSE) EXCEPT !.pc = "idle"]

\* ---- shell arguments ----
\* a shell path is the sequence of its components: /bin/bash is <<"bin", "bash">>
Shl(pc, shell, mode, command, args) ==
    [pc |-> pc, shell |-> shell, mode |-> mode, command |-> command, args |-> args]
ShellIdle == shl = Shl("idle", <<>>, "none", "", <<>>)

\* ---- forward connections on one session ----
MaxConns == 2
ConnIds == 1..MaxConns
Free == 0
Fc(pc, copied) == [pc |-> pc, copied |-> copied]
LockIdle ==
    /\ mtx = Free
    /\ fc = [f \in ConnIds |-> Fc("idle", 0)]
    /\ stalled = FALSE

\* the parts added for the later specifications
ExtrasIdle == AuthIdle /\ LineIdle /\ ShellIdle /\ LockIdle

\* the parts of the program that a specification does not run stay as they
\* are at start
SessionsIdle == TlsIdle /\ ExecIdle /\ InputIdle
ServicesIdle == HubIdle /\ AgentIdle /\ CertIdle /\ NodeIdle /\ ExtrasIdle

(***************************************************************************)
(* SpecToken: tokens are issued and verified while the clock advances.     *)
(***************************************************************************)
IdAlphabet == {"a", "|"}
NodeIds == UNION {[1..n -> {Ch(c) : c \in IdAlphabet}] : n \in 0..MaxIdLen}
Secrets == {"s1", "s2"}

\* what SpecToken leaves alone
tokenOthers == <<relayVars, proxyVars, sniVars, execVars, inputVars, hubVars, agentVars, certVars, nodeVars, authVars, lineVars, shellVars, lockVars>>

NoToken == [token |-> Garbage, id |-> <<>>, secret |-> "", expiry |-> 0]

TokenInit ==
    /\ tnow = 0
    /\ tissued = NoToken
    /\ tverified = {}
    /\ RelayIdle
    /\ ProxyIdle
    /\ SessionsIdle
    /\ ServicesIdle

\* GET /node/{id}/token: a token is issued; it is the one looked at from now on
TokIssue(id, ttl, secret) ==
    /\ tissued' = [token |-> IssueTunnelToken(id, ttl, secret, tnow),
                   id |-> id, secret |-> secret, expiry |-> tnow + ttl]
    /\ tverified' = {}
    /\ UNCHANGED <<tnow, tokenOthers>>

\* a control handshake presents the token (or a string that is no token)
TokVerify(secret) ==
    /\ tverified = {}
    /\ tverified' = {[issued |-> tissued, secret |-> secret, at |-> tnow,
                      result |-> VerifyTunnelToken(tissued.token, secret, tnow)]}
    /\ UNCHANGED <<tnow, tissued, tokenOthers>>

TokTick ==
    /\ tnow < MaxTime
    /\ tnow' = tnow + 1
    /\ UNCHANGED <<tissued, tverified, tokenOthers>>

TokenNext ==
    \/ \E id \in NodeIds, ttl \in 0..MaxTtl, s \in Secrets : TokIssue(id, ttl, s)
    \/ \E s \in Secrets : TokVerify(s)
    \/ TokTick

SpecToken == TokenInit /\ [][TokenNext]_vars

\* C6 (as stated): a token made by issue(agent_id, ttl, secret) verifies under
\* secret' at time now to agent_id iff now < expiry and secret' = secret, and
\* fails in every other case.
C6_VerifyIffStrictlyBeforeExpiry ==
    \A v \in tverified :
        v.issued.token # Garbage =>
            IF v.at < v.issued.expiry /\ v.secret = v.issued.secret
            THEN v.result = Ok(v.issued.id)
            ELSE v.result = Err

\* C6 (amended): for an agent id without '|', the token verifies to agent_id
\* iff now <= expiry and secret' = secret, and fails in every other case; a
\* token issued for an id that holds '|' never verifies.
C6_VerifyIffNotAfterExpiry ==
    \A v \in tverified :
        v.issued.token # Garbage =>
            IF /\ v.at <= v.issued.expiry
               /\ v.secret = v.issued.secret
               /\ \A i \in 1..Len(v.issued.id) : v.issued.id[i] # Bar
            THEN v.result = Ok(v.issued.id)
            ELSE v.result = Err

\* C6 witness: a token issued earlier verified to its agent id in the very
\* second of its expiry
C6_Witness ==
    \E v \in tverified :
        /\ v.result.ok
        /\ v.result.id = v.issued.id
        /\ v.at = v.issued.expiry
        /\ v.at > 0
(***************************************************************************)
(* Spec: the relay.  Control connections run handle_control_tunnel, REST   *)
(* callers run request_public_url, inbound connections with a forward SNI  *)
(* run handle_forward_connection.  Every await is a step boundary.         *)
(***************************************************************************)
\* what the relay specifications leave alone
relayOthers == <<tokenVars, proxyVars, sniVars, execVars, inputVars, hubVars, agentVars, certVars, nodeVars, authVars, lineVars, shellVars, lockVars>>

RelayInit ==
    /\ tnow = MaxTime
    /\ tissued = NoToken
    /\ tverified = {}
    /\ RelayIdle
    /\ ProxyIdle
    /\ SessionsIdle
    /\ ServicesIdle

\* serve, lines 119-130: a connection with SNI control.<public> arrives and will
\* send `line`
CtlAccept(c, line) ==
    /\ ctl[c].pc = "idle"
    /\ IF c = 1 THEN TRUE ELSE ctl[c - 1].pc # "idle"
    /\ ctl' = [ctl EXCEPT ![c] = Conn("read", line, FALSE, FALSE)]
    /\ UNCHANGED <<tunnels, forwards, urls, fwd, relayOthers>>

\* handle_control_tunnel, lines 168-189: read and check the handshake line; a
\* refused handshake returns, which drops the connection
CtlHandshake(c) ==
    /\ ctl[c].pc = "read"
    /\ ctl' = [ctl EXCEPT ![c] =
                  IF HandshakeAccepted(ctl[c].line, ForwardSecret, tnow)
                  THEN [@ EXCEPT !.pc = "evict"]
                  ELSE [@ EXCEPT !.pc = "rejected", !.closed = TRUE]]
    /\ UNCHANGED <<tunnels, forwards, urls, fwd, relayOthers>>

\* handle_control_tunnel, lines 191-194: evict the session registered for node_id
CtlEvict(c) ==
    /\ ctl[c].pc = "evict"
    /\ tunnels' = TunnelsRemove(tunnels, NodeIdOf(ctl[c].line))
    /\ ctl' = DropUnreferenced([ctl EXCEPT ![c].pc = "register"], tunnels', fwd)
    /\ UNCHANGED <<forwards, urls, fwd, relayOthers>>

\* handle_control_tunnel, lines 197-201: upgrade to yamux and register
CtlRegister(c) ==
    /\ ctl[c].pc = "register"
    /\ tunnels' = RegisterTunnel(tunnels, NodeIdOf(ctl[c].line), c)
    /\ ctl' = DropUnreferenced([ctl EXCEPT ![c].pc = "done"], tunnels', fwd)
    /\ UNCHANGED <<forwards, urls, fwd, relayOthers>>

\* the transport of a registered session fails or is closed by the agent
TransportFail(c) ==
    /\ ctl[c].pc = "done"
    /\ ~ctl[c].closed
    /\ ctl' = [ctl EXCEPT ![c].closed = TRUE]
    /\ UNCHANGED <<tunnels, forwards, urls, fwd, relayOthers>>

\* Dead: the session's entry leaves the map if the map still points to it
SessionDead(c) ==
    /\ ctl[c].pc = "done"
    /\ ctl[c].closed
    /\ tunnels' = RemoveDead(tunnels, NodeIdOf(ctl[c].line), c)
    /\ ctl' = [ctl EXCEPT ![c].pc = "gone"]
    /\ UNCHANGED <<forwards, urls, fwd, relayOthers>>

\* NodeDoc::request_public_url: register the forward, return the URL
RequestPublicUrl(node_id, name, port, ips) ==
    LET host == SniHost(name, ShortNodeId(node_id)) IN
    /\ forwards' = RequestPublicUrlForwards(forwards, node_id, name, port, ips)
    /\ urls' = [urls EXCEPT ![host] = [meta |-> Meta(host, node_id, port, ips),
                                       again |-> urls[host].meta # NoMeta]]
    /\ UNCHANGED <<ctl, tunnels, fwd, relayOthers>>

\* serve, lines 132-136: a connection with another SNI arrives; peer is what
\* peer_addr() gives, "err" when it fails
FwdAccept(f, host, peer) ==
    /\ fwd[f].pc = "idle"
    /\ IF f = 1 THEN TRUE ELSE fwd[f - 1].pc # "idle"
    /\ fwd' = [fwd EXCEPT ![f] = Fwd("acl", host, peer, NoMeta, 0)]
    /\ UNCHANGED <<ctl, tunnels, forwards, urls, relayOthers>>

\* handle_forward_connection, lines 209-221: the whitelist check
FwdAcl(f) ==
    /\ fwd[f].pc = "acl"
    /\ fwd' = [fwd EXCEPT ![f].pc =
                  IF AclBlocks(forwards, fwd[f].host, fwd[f].peer)
                  THEN "blocked" ELSE "lookup"]
    /\ UNCHANGED <<ctl, tunnels, forwards, urls, relayOthers>>

\* handle_forward_connection, lines 223-230: the mapping of the host
FwdLookup(f) ==
    /\ fwd[f].pc = "lookup"
    /\ LET meta == ForwardsGet(forwards, fwd[f].host) IN
       fwd' = [fwd EXCEPT ![f] =
                  IF meta = NoMeta THEN [@ EXCEPT !.pc = "nomap"]
                  ELSE [@ EXCEPT !.pc = "tunnel", !.meta = meta]]
    /\ UNCHANGED <<ctl, tunnels, forwards, urls, relayOthers>>

\* handle_forward_connection, lines 232-236: the node's control session
FwdGetTunnel(f) ==
    /\ fwd[f].pc = "tunnel"
    /\ LET s == GetTunnel(tunnels, fwd[f].meta.node_id) IN
       fwd' = [fwd EXCEPT ![f] =
                  IF s = 0 THEN [@ EXCEPT !.pc = "notunnel"]
                  ELSE [@ EXCEPT !.pc = "lock", !.sess = s]]
    /\ UNCHANGED <<ctl, tunnels, forwards, urls, relayOthers>>

\* handle_forward_connection, lines 238-241: take the session's mutex and open
\* a substream; open_stream fails on a closed session
FwdOpen(f) ==
    /\ fwd[f].pc = "lock"
    /\ \A g \in FwdIds : ~(fwd[g].pc = "header" /\ fwd[g].sess = fwd[f].sess)
    /\ fwd' = [fwd EXCEPT ![f].pc =
                  IF ctl[fwd[f].sess].closed THEN "openfail" ELSE "header"]
    /\ ctl' = DropUnreferenced(ctl, tunnels, fwd')
    /\ UNCHANGED <<tunnels, forwards, urls, relayOthers>>

\* handle_forward_connection, lines 242-250: write the port header, then spawn
\* the byte copy and return (which releases the mutex and the Arc)
FwdHeader(f) ==
    /\ fwd[f].pc = "header"
    /\ fwd' = [fwd EXCEPT ![f].pc =
                  IF ctl[fwd[f].sess].closed THEN "hdrfail" ELSE "proxy"]
    /\ ctl' = DropUnreferenced(
                 [ctl EXCEPT ![fwd[f].sess].wrote = @ \/ ~ctl[fwd[f].sess].closed],
                 tunnels, fwd')
    /\ UNCHANGED <<tunnels, forwards, urls, relayOthers>>

\* how a byte copy over a substream ends: with an error once the session of
\* its substream is closed, at EOF otherwise
ProxyEndPcHangs(closed) == IF closed THEN "proxy" ELSE "eof"
ProxyEndPc(closed) == IF closed THEN "subfail" ELSE "eof"

\* the spawned proxy_bidirectional ends, which drops inbound and sub
FwdProxyEnd(f) ==
    /\ fwd[f].pc = "proxy"
    /\ fwd' = [fwd EXCEPT ![f].pc = ProxyEndPc(ctl[fwd[f].sess].closed)]
    /\ UNCHANGED <<ctl, tunnels, forwards, urls, relayOthers>>

HostA == SniHost("", ShortNodeId(AgentA))
AllowedIps == {NoIps, SomeIps({"10.0.0.1"})}
HsLines == {GoodLine(AgentA, MaxTime), GoodLine(AgentB, MaxTime)} \cup BadLines(AgentA, MaxTime)

\* Spec: every kind of handshake, on up to MaxCtl connections that may race;
\* one forward connection that may hold a session while it is evicted
Next ==
    \/ \E c \in CtlIds, line \in HsLines : CtlAccept(c, line)
    \/ \E c \in CtlIds : CtlHandshake(c)
    \/ \E c \in CtlIds : CtlEvict(c)
    \/ \E c \in CtlIds : CtlRegister(c)
    \/ \E c \in CtlIds : TransportFail(c)
    \/ \E c \in CtlIds : SessionDead(c)
    \/ RequestPublicUrl(AgentA, "", 80, NoIps)
    \/ FwdAccept(1, HostA, "10.0.0.1")
    \/ \E f \in FwdIds : FwdAcl(f)
    \/ \E f \in FwdIds : FwdLookup(f)
    \/ \E f \in FwdIds : FwdGetTunnel(f)
    \/ \E f \in FwdIds : FwdOpen(f)
    \/ \E f \in FwdIds : FwdHeader(f)
    \/ \E f \in FwdIds : FwdProxyEnd(f)

\* SpecForward: forward connections from every kind of peer while the forward
\* is registered and re-registered; one control session of the node
ForwardNext ==
    \/ CtlAccept(1, GoodLine(AgentA, MaxTime))
    \/ \E c \in CtlIds : CtlHandshake(c)
    \/ \E c \in CtlIds : CtlEvict(c)
    \/ \E c \in CtlIds : CtlRegister(c)
    \/ \E c \in CtlIds : TransportFail(c)
    \/ \E c \in CtlIds : SessionDead(c)
    \/ \E ips \in AllowedIps : RequestPublicUrl(AgentA, "", 80, ips)
    \/ \E f \in FwdIds, p \in Ips \cup {"err"} : FwdAccept(f, HostA, p)
    \/ \E f \in FwdIds : FwdAcl(f)
    \/ \E f \in FwdIds : FwdLookup(f)
    \/ \E f \in FwdIds : FwdGetTunnel(f)
    \/ \E f \in FwdIds : FwdOpen(f)
    \/ \E f \in FwdIds : FwdHeader(f)
    \/ \E f \in FwdIds : FwdProxyEnd(f)

\* SpecRegistry: public URLs are requested for every node and name; forward
\* connections look the hosts up
RegistryNext ==
    \/ \E a \in Agents, n \in Names, ips \in AllowedIps :
           RequestPublicUrl(a, Str(IF n = "" THEN <<>> ELSE <<n>>), 80, ips)
    \/ \E h \in AllHosts : FwdAccept(1, h, "10.0.0.2")
    \/ \E f \in FwdIds : FwdAcl(f)
    \/ \E f \in FwdIds : FwdLookup(f)
    \/ \E f \in FwdIds : FwdGetTunnel(f)

Spec == RelayInit /\ [][Next]_vars
SpecForward == RelayInit /\ [][ForwardNext]_vars
SpecRegistry == RelayInit /\ [][RegistryNext]_vars

\* SpecEvict: handshakes with a valid token for one agent, on up to MaxCtl
\* connections, and a forward connection that may hold a session while it is
\* evicted.  The runtime schedules every task that can run: a handler that
\* can take the session's mutex or finish its header write does so.
EvictNext ==
    \/ \E c \in CtlIds : CtlAccept(c, GoodLine(AgentA, MaxTime))
    \/ \E c \in CtlIds : CtlHandshake(c)
    \/ \E c \in CtlIds : CtlEvict(c)
    \/ \E c \in CtlIds : CtlRegister(c)
    \/ \E c \in CtlIds : TransportFail(c)
    \/ \E c \in CtlIds : SessionDead(c)
    \/ RequestPublicUrl(AgentA, "", 80, NoIps)
    \/ FwdAccept(1, HostA, "10.0.0.1")
    \/ \E f \in FwdIds : FwdAcl(f)
    \/ \E f \in FwdIds : FwdLookup(f)
    \/ \E f \in FwdIds : FwdGetTunnel(f)
    \/ \E f \in FwdIds : FwdOpen(f)
    \/ \E f \in FwdIds : FwdHeader(f)
    \/ \E f \in FwdIds : FwdProxyEnd(f)

SpecEvict ==
    /\ RelayInit
    /\ [][EvictNext]_vars
    /\ \A f \in FwdIds : WF_vars(FwdOpen(f)) /\ WF_vars(FwdHeader(f))

\* SpecDeath: the same steps; in addition a byte copy that can end does end,
\* and a dead session gets to clean up after itself.
SpecDeath ==
    /\ RelayInit
    /\ [][EvictNext]_vars
    /\ \A f \in FwdIds :
          WF_vars(FwdOpen(f)) /\ WF_vars(FwdHeader(f)) /\ WF_vars(FwdProxyEnd(f))
    /\ \A c \in CtlIds : WF_vars(SessionDead(c))

(***************************************************************************)
(* Properties of the control sessions.                                     *)
(***************************************************************************)
InMap(c) == \E e \in tunnels : e[2] = c
SameNode(c, d) == NodeIdOf(ctl[c].line) = NodeIdOf(ctl[d].line)

\* C1: after any interleaving of handshakes, evictions and disconnects the
\* session map holds at most one registered control session per agent id.
C1_OneSessionPerAgent ==
    \A a \in Agents : Cardinality({e \in tunnels : e[1] = a}) <= 1

\* C1 witness: two handshakes for the same agent have both completed and the
\* map holds one session for that agent
C1_Witness ==
    \E c, d \in CtlIds :
        /\ c # d
        /\ SameNode(c, d)
        /\ ctl[c].pc = "done"
        /\ ctl[d].pc = "done"
        /\ InMap(d)

\* a newer handshake for the node of session s got past the eviction and s is
\* no longer the registered session
Evicted(s) ==
    /\ ctl[s].pc = "done"
    /\ ~InMap(s)
    /\ \E c \in CtlIds : c # s /\ SameNode(c, s) /\ ctl[c].pc \in {"register", "done", "gone"}

C3_DeadRemovesOnlyOwnEntry ==
    [][\A e \in tunnels \ tunnels' :
          \/ ctl[e[2]].pc = "done" /\ ctl[e[2]].closed /\ ctl'[e[2]].pc = "gone"
          \/ \E c \in CtlIds :
                /\ c # e[2]
                /\ NodeIdOf(ctl[c].line) = e[1]
                /\ ctl[c].pc \in {"evict", "register"}
                /\ ctl'[c].pc # ctl[c].pc]_vars

\* C3 witness: an evicted session has reached Dead and cleaned up while the
\* map holds the session that replaced it
C3_Witness ==
    \E s, c \in CtlIds :
        /\ s # c
        /\ SameNode(s, c)
        /\ ctl[s].pc = "gone"
        /\ ctl[c].pc = "done" /\ InMap(c) /\ ~ctl[c].closed

\* C12: if a control session dies while a forward attempt that uses it is in
\* flight (it has looked the session up and its byte copy has not ended),
\* the attempt ends in failure, which closes its client connection.
C12_DeadSessionFailsForward ==
    \A f \in FwdIds :
        (fwd[f].pc \in {"lock", "header", "proxy"} /\ ctl[fwd[f].sess].closed)
            ~> (fwd[f].pc \in {"openfail", "hdrfail", "subfail"})

\* C12 witness: the transport of the only session failed during a byte copy,
\* and the copy has ended in failure
C12_Witness ==
    \E f \in FwdIds :
        /\ fwd[f].pc = "subfail"
        /\ ctl[fwd[f].sess].closed
        /\ \A c \in CtlIds : c # fwd[f].sess => ctl[c].pc = "idle"

C5_BadTokenNoSessionNoReply ==
    \A c \in CtlIds :
        (/\ ctl[c].pc \notin {"idle", "read"}
         /\ ctl[c].line.kind \in {"malformed", "expired", "wrongsig", "mismatch"})
        => /\ ctl[c].pc = "rejected"
           /\ ctl[c].closed
           /\ ~ctl[c].wrote
           /\ ~InMap(c)

\* C5 witness: a handshake naming one agent with a token of another was
\* refused while a session is registered
C5_Witness ==
    \E c, d \in CtlIds :
        /\ ctl[c].pc = "rejected"
        /\ ctl[c].line.kind = "mismatch"
        /\ ctl[d].pc = "done" /\ InMap(d) /\ ctl[d].wrote

(***************************************************************************)
(* Properties of the forward path.                                         *)
(***************************************************************************)
Opened(f) == fwd[f].pc \in {"header", "proxy", "hdrfail", "eof", "subfail"}

\* C4 (as stated): under a forward whose allowed_ips is Some(set), a substream
\* is opened only for a connection whose source IP is in the set; a peer with
\* any other source IP is disconnected without a substream.  Stated for the
\* mapping the handler forwards under and for peers whose address is known.
C4_SubstreamOnlyForAllowedIp ==
    \A f \in FwdIds :
        (Opened(f) /\ fwd[f].meta.allowed_ips.some /\ fwd[f].peer # "err")
            => fwd[f].peer \in fwd[f].meta.allowed_ips.ips

MaxPayload == 2
PeekLen == 16
U16Max == 65535

LF == "\n"
Digits == <<"0", "1", "2", "3", "4", "5", "6", "7", "8", "9">>
IsDigit(ch) == \E d \in 0..9 : Digits[d + 1] = ch
DigitVal(ch) == CHOOSE d \in 0..9 : Digits[d + 1] = ch

\* Display for u16
RECURSIVE Decimal(_)
Decimal(n) ==
    IF n < 10 THEN <<Digits[n + 1]>>
    ELSE Decimal(n \div 10) \o <<Digits[(n % 10) + 1]>>

\* serve.rs line 242: format!("{}\n", meta.target_port)
Header(port) == Decimal(port) \o <<LF>>

\* str::trim: white space is cut from both ends only
IsSpace(ch) == ch \in {LF, " "}
RECURSIVE TrimStart(_)
TrimStart(s) ==
    IF s # <<>> /\ IsSpace(Head(s)) THEN TrimStart(Tail(s)) ELSE s
RECURSIVE TrimEnd(_)
TrimEnd(s) ==
    IF s # <<>> /\ IsSpace(s[Len(s)]) THEN TrimEnd(SubSeq(s, 1, Len(s) - 1)) ELSE s
Trim(s) == TrimEnd(TrimStart(s))

\* the value of a digit string, digit by digit as u16::from_str computes
\* it; a value that has passed U16Max stays out of range
RECURSIVE DecValue(_)
DecValue(s) ==
    IF s = <<>> THEN 0
    ELSE LET v == DecValue(SubSeq(s, 1, Len(s) - 1)) IN
         IF v > U16Max THEN v ELSE v * 10 + DigitVal(s[Len(s)])

\* client server.rs lines 338-341: .trim().parse::<u16>().unwrap_or(0)
ParsePort(buf) ==
    LET t == Trim(buf) IN
    IF /\ t # <<>>
       /\ \A i \in 1..Len(t) : IsDigit(t[i])
       /\ DecValue(t) <= U16Max
    THEN DecValue(t) ELSE 0

\* client server.rs lines 336-337: peek fills buf with the first bytes that
\* have arrived on the stream and leaves them in the stream
Peek(s2a) == SubSeq(s2a, 1, IF Len(s2a) < PeekLen THEN Len(s2a) ELSE PeekLen)

IsPrefix(s, t) == Len(s) <= Len(t) /\ s = SubSeq(t, 1, Len(s))

\* the port of the forward mapping, the port the local service listens on
TargetPorts == {80, 8080}
LocalPort == 80
\* what the operator sends and what the local service answers
OperatorBytes == UNION {[1..n -> {"x", LF}] : n \in 0..MaxPayload}
ReplyBytes == UNION {[1..n -> {"y"}] : n \in 0..MaxPayload}

\* what SpecProxy leaves alone
proxyOthers == <<tokenVars, relayVars, sniVars, execVars, inputVars, hubVars, agentVars, certVars, nodeVars, authVars, lineVars, shellVars, lockVars>>

\* the substream has been opened (serve.rs line 239-241) and has reached the
\* agent's session loop (client server.rs line 333)
ProxyInit ==
    /\ tnow = 0
    /\ tissued = NoToken
    /\ tverified = {}
    /\ RelayIdle
    /\ \E port \in TargetPorts, bytes \in OperatorBytes :
          srv = Srv("header", port, bytes, bytes, 0, 0, <<>>, FALSE)
    /\ sub = NoSub
    /\ \E reply \in ReplyBytes :
          agt = Agt("peek", 0, 0, <<>>, FALSE, reply, reply)
    /\ SessionsIdle
    /\ ServicesIdle

\* serve.rs lines 247-249: proxy_bidirectional is spawned after the header
\* has been written
ProxyRunningEarly(s) == s.pc \in {"header", "copy"}
ProxyRunning(s) == s.pc = "copy"

\* serve.rs lines 242-245: the header is written to the substream
SubHeader ==
    /\ srv.pc = "header"
    /\ ~sub.rst
    /\ sub' = [sub EXCEPT !.s2a = @ \o Header(srv.port)]
    /\ srv' = [srv EXCEPT !.pc = "copy"]
    /\ UNCHANGED <<agt, proxyOthers>>

\* serve.rs lines 243-245: write_all fails after k bytes of the header; the
\* handler returns the error, which drops sub and inbound
SubHeaderFail(k) ==
    /\ srv.pc = "header"
    /\ k < Len(Header(srv.port))
    /\ sub' = [sub EXCEPT !.s2a = @ \o SubSeq(Header(srv.port), 1, k), !.rst = TRUE]
    /\ srv' = [srv EXCEPT !.pc = "failed", !.outEof = TRUE]
    /\ UNCHANGED <<agt, proxyOthers>>

\* proxy_bidirectional, operator to substream: one byte is copied
ProxyUp ==
    /\ ProxyRunning(srv)
    /\ ~sub.rst /\ ~sub.s2aFin
    /\ srv.inbound # <<>>
    /\ sub' = [sub EXCEPT !.s2a = Append(@, Head(srv.inbound))]
    /\ srv' = [srv EXCEPT !.inbound = Tail(@), !.up = @ + 1]
    /\ UNCHANGED <<agt, proxyOthers>>

\* proxy_bidirectional: the operator has closed its sending side, the
\* substream's sending side is shut down
ProxyUpEof ==
    /\ ProxyRunning(srv)
    /\ ~sub.rst /\ ~sub.s2aFin
    /\ srv.inbound = <<>>
    /\ sub' = [sub EXCEPT !.s2aFin = TRUE]
    /\ UNCHANGED <<srv, agt, proxyOthers>>

\* proxy_bidirectional, substream to operator: one byte is copied
ProxyDown ==
    /\ ProxyRunning(srv)
    /\ ~srv.outEof
    /\ srv.down < Len(sub.a2s)
    /\ srv' = [srv EXCEPT !.out = Append(@, sub.a2s[srv.down + 1]), !.down = @ + 1]
    /\ UNCHANGED <<sub, agt, proxyOthers>>

\* proxy_bidirectional: the substream's receiving side has ended, the
\* operator's connection is shut down for writing
ProxyDownEof ==
    /\ ProxyRunning(srv)
    /\ ~srv.outEof
    /\ srv.down = Len(sub.a2s)
    /\ sub.a2sFin
    /\ srv' = [srv EXCEPT !.outEof = TRUE]
    /\ UNCHANGED <<sub, agt, proxyOthers>>

\* proxy_bidirectional returns: both directions have ended, or the agent
\* has dropped the substream; inbound and sub are dropped
ProxyEnd ==
    /\ ProxyRunning(srv)
    /\ \/ sub.s2aFin /\ srv.outEof
       \/ sub.rst
    /\ srv' = [srv EXCEPT !.pc = "end", !.outEof = TRUE]
    /\ UNCHANGED <<sub, agt, proxyOthers>>

\* client server.rs lines 335-342: peek at the first bytes and parse the
\* port; with port 0, or when peek fails, the handler ends and stream is
\* dropped
AgentPeek ==
    /\ agt.pc = "peek"
    /\ sub.s2a # <<>> \/ sub.s2aFin \/ sub.rst
    /\ LET port == IF sub.rst /\ sub.s2a = <<>> THEN 0 ELSE ParsePort(Peek(sub.s2a)) IN
       IF port > 0
       THEN /\ agt' = [agt EXCEPT !.pc = "connect", !.port = port]
            /\ sub' = sub
       ELSE /\ agt' = [agt EXCEPT !.pc = "dropped"]
            /\ sub' = [sub EXCEPT !.rst = TRUE]
    /\ UNCHANGED <<srv, proxyOthers>>

\* client server.rs line 343: TcpStream::connect(("127.0.0.1", port)); when
\* nothing listens on the port the handler ends and stream is dropped
AgentConnect ==
    /\ agt.pc = "connect"
    /\ IF agt.port = LocalPort
       THEN /\ agt' = [agt EXCEPT !.pc = "copy"]
            /\ sub' = sub
       ELSE /\ agt' = [agt EXCEPT !.pc = "dropped"]
            /\ sub' = [sub EXCEPT !.rst = TRUE]
    /\ UNCHANGED <<srv, proxyOthers>>

\* client server.rs line 344, copy_bidirectional, stream to local: one byte
\* is read from the stream, from its first unread byte on, and written to
\* the local connection
AgentUp ==
    /\ agt.pc = "copy"
    /\ agt.up < Len(sub.s2a)
    /\ agt' = [agt EXCEPT !.localIn = Append(@, sub.s2a[agt.up + 1]), !.up = @ + 1]
    /\ UNCHANGED <<srv, sub, proxyOthers>>

\* copy_bidirectional: the stream has ended, local is shut down for writing
AgentUpEof ==
    /\ agt.pc = "copy"
    /\ ~agt.localEof
    /\ agt.up = Len(sub.s2a)
    /\ sub.s2aFin \/ sub.rst
    /\ agt' = [agt EXCEPT !.localEof = TRUE]
    /\ UNCHANGED <<srv, sub, proxyOthers>>

\* copy_bidirectional, local to stream: one byte of the service's answer
AgentDown ==
    /\ agt.pc = "copy"
    /\ ~sub.a2sFin
    /\ agt.localOut # <<>>
    /\ sub' = [sub EXCEPT !.a2s = Append(@, Head(agt.localOut))]
    /\ agt' = [agt EXCEPT !.localOut = Tail(@)]
    /\ UNCHANGED <<srv, proxyOthers>>

\* copy_bidirectional: the local service has closed after its answer, the
\* stream is shut down for writing
AgentDownEof ==
    /\ agt.pc = "copy"
    /\ ~sub.a2sFin
    /\ agt.localOut = <<>>
    /\ sub' = [sub EXCEPT !.a2sFin = TRUE]
    /\ UNCHANGED <<srv, agt, proxyOthers>>

\* client server.rs lines 345-350: copy_bidirectional has returned, stream
\* and local are shut down
AgentDone ==
    /\ agt.pc = "copy"
    /\ agt.localEof
    /\ sub.a2sFin
    /\ agt' = [agt EXCEPT !.pc = "closed"]
    /\ UNCHANGED <<srv, sub, proxyOthers>>

ProxyNext ==
    \/ SubHeader
    \/ \E k \in 0..5 : SubHeaderFail(k)
    \/ ProxyUp
    \/ ProxyUpEof
    \/ ProxyDown
    \/ ProxyDownEof
    \/ ProxyEnd
    \/ AgentPeek
    \/ AgentConnect
    \/ AgentUp
    \/ AgentUpEof
    \/ AgentDown
    \/ AgentDownEof
    \/ AgentDone

SpecProxy == ProxyInit /\ [][ProxyNext]_vars

\* C9: on a forward substream the port-header line is the first thing written
\* towards the agent: what the substream carries in that direction is always
\* a prefix of "<port>\n" followed by the operator's bytes, and once a byte of
\* the operator has been copied the whole header line lies before it.
C9_HeaderBeforePayload ==
    LET line == Decimal(srv.port) \o <<LF>> IN
    /\ IsPrefix(sub.s2a, line \o srv.sent)
    /\ srv.up > 0 => Len(sub.s2a) = Len(line) + srv.up

\* C9 witness: a byte of the operator has been written to the substream
C9_Witness ==
    /\ srv.up > 0
    /\ Len(sub.s2a) > Len(Decimal(srv.port)) + 1

\* C10 (as stated): what the local service receives is what the operator
\* sent, without the port-header line, and what the operator receives is
\* what the local service sent, followed by end of stream (for a substream
\* whose header was written).
C10_BytesRelayedUnchanged ==
    srv.pc \in {"copy", "end"} =>
        /\ IsPrefix(agt.localIn, srv.sent)
        /\ agt.localEof /\ ~sub.rst => agt.localIn = srv.sent
        /\ IsPrefix(srv.out, agt.reply)
        /\ srv.outEof /\ agt.pc = "closed" => srv.out = agt.reply

(***************************************************************************)
(* SpecSni: the TLS listener routes every accepted connection by its SNI:  *)
(* to the REST listener, to handle_control_tunnel or to                    *)
(* handle_forward_connection.                                              *)
(***************************************************************************)
NoSni == <<>>
PublicSni == <<PublicAddress>>
ControlSni == <<<<"control", <<>>>>, PublicAddress>>
HostB == SniHost("", ShortNodeId(AgentB))
Snis == {NoSni, PublicSni, ControlSni, HostA, HostB}

\* serve, lines 105-136: where a connection with this SNI goes
SniRouteEmptyForward(sni) ==
    IF sni = PublicSni THEN "rest"
    ELSE IF sni = ControlSni THEN "control"
    ELSE "forward"
SniRoute(sni) ==
    IF sni = NoSni THEN "closed"
    ELSE IF sni = PublicSni THEN "rest"
    ELSE IF sni = ControlSni THEN "control"
    ELSE "forward"

\* what the TLS listener leaves alone
sniOthers == <<tokenVars, proxyVars, execVars, inputVars, hubVars, agentVars, certVars, nodeVars, authVars, lineVars, shellVars, lockVars>>

\* serve, lines 100-137: a connection is accepted and handed to the handler of
\* its SNI; line is what a control connection will send, peer what
\* peer_addr() gives
TlsAccept(sni, peer, line) ==
    /\ LET to == SniRoute(sni) IN
       \/ /\ to \in {"closed", "rest"}
          /\ tls' = tls \cup {Tls(sni, to, 0)}
          /\ UNCHANGED relayVars
       \/ /\ to = "control"
          /\ \E c \in CtlIds :
                /\ ctl[c].pc = "idle"
                /\ IF c = 1 THEN TRUE ELSE ctl[c - 1].pc # "idle"
                /\ ctl' = [ctl EXCEPT ![c] = Conn("read", line, FALSE, FALSE)]
                /\ tls' = tls \cup {Tls(sni, to, c)}
          /\ UNCHANGED <<tunnels, forwards, urls, fwd>>
       \/ /\ to = "forward"
          /\ \E f \in FwdIds :
                /\ fwd[f].pc = "idle"
                /\ IF f = 1 THEN TRUE ELSE fwd[f - 1].pc # "idle"
                /\ fwd' = [fwd EXCEPT ![f] = Fwd("acl", sni, peer, NoMeta, 0)]
                /\ tls' = tls \cup {Tls(sni, to, f)}
          /\ UNCHANGED <<ctl, tunnels, forwards, urls>>
    /\ UNCHANGED sniOthers

\* SpecSni: connections with every kind of SNI arrive; node A's forward host
\* is registered at some point, node B's never
SniNext ==
    \/ \E sni \in Snis : TlsAccept(sni, "10.0.0.1", GoodLine(AgentA, MaxTime))
    \/ \E c \in CtlIds : CtlHandshake(c)
    \/ \E c \in CtlIds : CtlEvict(c)
    \/ \E c \in CtlIds : CtlRegister(c)
    \/ RequestPublicUrl(AgentA, "", 80, NoIps)
    \/ \E f \in FwdIds : FwdAcl(f)
    \/ \E f \in FwdIds : FwdLookup(f)
    \/ \E f \in FwdIds : FwdGetTunnel(f)
    \/ \E f \in FwdIds : FwdOpen(f)
    \/ \E f \in FwdIds : FwdHeader(f)
    \/ \E f \in FwdIds : FwdProxyEnd(f)

SpecSni == RelayInit /\ [][SniNext]_vars

\* C11: a connection goes to REST only with the public host as SNI, starts a
\* control handshake only with control.<public-host>, and gets past the
\* forward lookup (towards a substream) only with a registered forward host;
\* with an empty SNI it is closed at once, with any other SNI it is closed by
\* the forward handler.
C11_UnrecognizedSniClosed ==
    /\ \A t \in tls :
          /\ t.to = "rest" => t.sni = PublicSni
          /\ t.to = "control" => t.sni = ControlSni
          /\ t.sni = NoSni => t.to = "closed"
          /\ t.to = "forward" =>
                (fwd[t.id].pc \notin {"acl", "lookup", "nomap", "blocked"}
                    => \E e \in forwards : e.host = t.sni)
    /\ \A c \in CtlIds :
          ctl[c].pc # "idle" => \E t \in tls : t.to = "control" /\ t.id = c
    /\ \A f \in FwdIds :
          fwd[f].pc # "idle" =>
              \E t \in tls : t.to = "forward" /\ t.id = f /\ t.sni = fwd[f].host

\* C11 witness: a connection without SNI was closed and one with the host of
\* a node that has no forward was closed by the forward handler
C11_Witness ==
    /\ \E t \in tls : t.sni = NoSni /\ t.to = "closed"
    /\ \E t \in tls : t.sni = HostB /\ t.to = "forward" /\ fwd[t.id].pc = "nomap"

(***************************************************************************)
(* SpecExec: one exec session (run_piped, run_with_pty) or terminal        *)
(* session (handle_terminal_io) on the agent: the handler, the child, the  *)
(* reader task, the wait thread and the client's end of the substream.     *)
(***************************************************************************)
MaxExecOut == 2

ExecModes == {"piped", "pty"}
PtyModes == {"pty", "terminal"}
ChildOutputs == UNION {[1..n -> {"o"}] : n \in 0..MaxExecOut}
ExitCodes == {0, 7}

\* what the exec session leaves alone
execOthers == <<tokenVars, relayVars, proxyVars, sniVars, inputVars, hubVars, agentVars, certVars, nodeVars, authVars, lineVars, shellVars, lockVars>>

\* the steps of the handler once its main part is over: exec.rs lines 204-226
\* (run_piped), lines 410-426 (run_with_pty), terminal.rs lines 233-238
CleanupShutdownFirst(mode) ==
    IF mode = "piped" THEN <<"join_readers", "join_output", "shutdown", "exit", "done">>
    ELSE IF mode = "pty" THEN <<"drop", "lock", "kill", "shutdown", "exit", "done">>
    ELSE <<"drop", "lock", "kill", "shutdown", "done">>
CleanupKillFirst(mode) ==
    IF mode = "piped" THEN <<"join_readers", "join_output", "exit", "shutdown", "done">>
    ELSE IF mode = "pty" THEN <<"lock", "kill", "drop", "exit", "shutdown", "done">>
    ELSE <<"lock", "kill", "drop", "shutdown", "done">>
Cleanup(mode) ==
    IF mode = "piped" THEN <<"join_readers", "join_output", "exit", "shutdown", "done">>
    ELSE IF mode = "pty" THEN <<"drop", "lock", "kill", "exit", "shutdown", "done">>
    ELSE <<"drop", "lock", "kill", "shutdown", "done">>

\* the step that follows pc in the clean-up
After(mode, pc) ==
    LET seq == Cleanup(mode)
        i == CHOOSE j \in 1..Len(seq) : seq[j] = pc
    IN  seq[i + 1]

\* write_all on the substream: fails, and writes nothing, once the client
\* is gone
Write(w, client, item) == IF client = "gone" THEN w ELSE Append(w, item)

HasExit(w) == \E i \in 1..Len(w) : w[i].k = "exit"

\* the handler starts: handle_exec_io has read the config line (exec.rs lines
\* 50-71), handle_terminal_io has written its greeting and read the first
\* five bytes (terminal.rs lines 17-25)
ExecInit ==
    /\ tnow = 0
    /\ tissued = NoToken
    /\ tverified = {}
    /\ RelayIdle
    /\ ProxyIdle
    /\ TlsIdle
    /\ InputIdle
    /\ ServicesIdle
    /\ \E mode \in ExecModes \cup PtyModes, pend \in ChildOutputs, hup \in BOOLEAN :
          /\ ex = [Ex(mode, pend, hup) EXCEPT
                      !.pc = IF mode = "piped" THEN "spawn" ELSE "openpty"]
          /\ wire = IF mode = "terminal" THEN <<TextLine("Initializing shell..")>>
                    ELSE <<>>

\* exec.rs lines 249-263, terminal.rs lines 36-49: openpty
OpenPty(ok) ==
    /\ ex.pc = "openpty"
    /\ IF ok
       THEN /\ ex' = [ex EXCEPT !.pc = "spawn", !.master = "open"]
            /\ wire' = wire
       ELSE /\ ex' = [ex EXCEPT !.pc = "returned"]
            /\ wire' = Write(wire, ex.client, TextLine("Failed to create PTY"))
    /\ UNCHANGED execOthers

\* exec.rs lines 113-122 and 272-281, terminal.rs lines 66-74: spawn the
\* command; on failure the pair, if any, is dropped by the return
SpawnCommand(ok) ==
    /\ ex.pc = "spawn"
    /\ IF ok
       THEN /\ ex' = [ex EXCEPT !.pc = IF ex.mode = "piped" THEN "wait" ELSE "reader",
                                !.child = "running", !.ran = TRUE]
            /\ wire' = wire
       ELSE /\ ex' = [ex EXCEPT !.pc = "returned",
                                !.master = IF @ = "open" THEN "dropped" ELSE @]
            /\ wire' = Write(wire, ex.client, TextLine("Failed to spawn command"))
    /\ UNCHANGED execOthers

\* exec.rs lines 284-294, terminal.rs lines 77-86: try_clone_reader; on
\* failure the child is killed, then the return drops the pair
CloneReader(ok) ==
    /\ ex.pc = "reader"
    /\ IF ok
       THEN /\ ex' = [ex EXCEPT !.pc = "writer"]
            /\ wire' = wire
       ELSE /\ ex' = [ex EXCEPT !.pc = "returned", !.killed = TRUE,
                                !.child = IF @ = "running" THEN "exited" ELSE @,
                                !.cstat = IF ex.child = "running" THEN 137 ELSE @,
                                !.master = "dropped"]
            /\ wire' = Write(wire, ex.client, TextLine("Failed to get PTY reader"))
    /\ UNCHANGED execOthers

\* exec.rs lines 295-336, terminal.rs lines 88-99: take_writer; in exec.rs
\* the reader and wait threads are spawned next and the main loop starts
TakeWriter(ok) ==
    /\ ex.pc = "writer"
    /\ IF ok
       THEN /\ ex' = IF ex.mode = "pty"
                     THEN [ex EXCEPT !.pc = "loop", !.wt = "init"]
                     ELSE [ex EXCEPT !.pc = "ready"]
            /\ wire' = wire
       ELSE /\ ex' = [ex EXCEPT !.pc = "returned", !.killed = TRUE,
                                !.child = IF @ = "running" THEN "exited" ELSE @,
                                !.cstat = IF ex.child = "running" THEN 137 ELSE @,
                                !.master = "dropped"]
            /\ wire' = Write(wire, ex.client, TextLine("Failed to get PTY writer"))
    /\ UNCHANGED execOthers

\* terminal.rs lines 133-153: wait up to 2 s for the shell's first output,
\* then spawn the wait thread and start the main loop
ShellReady(ok) ==
    /\ ex.pc = "ready"
    /\ IF ok
       THEN /\ ex.queue # <<>> \/ (ex.child # "running" /\ ex.pty = <<>>)
            /\ ex' = [ex EXCEPT !.pc = "loop", !.wt = "init"]
            /\ wire' = Write(wire, ex.client, TextLine("Shell connected successfully"))
       ELSE /\ ex.queue = <<>>
            /\ ex' = [ex EXCEPT !.pc = "returned", !.killed = TRUE,
                                !.child = IF @ = "running" THEN "exited" ELSE @,
                                !.cstat = IF ex.child = "running" THEN 137 ELSE @,
                                !.master = "dropped"]
            /\ wire' = Write(wire, ex.client, TextLine("Shell failed to start within timeout"))
    /\ UNCHANGED execOthers

\* the child writes a byte of its output to its stdout or to the PTY
ChildWrite ==
    /\ ex.child = "running"
    /\ ex.pend # <<>>
    /\ ex' = [ex EXCEPT !.pend = Tail(@), !.pty = Append(@, Head(ex.pend))]
    /\ UNCHANGED <<wire, execOthers>>

\* the child exits by itself, after its output
ChildExit(code) ==
    /\ ex.child = "running"
    /\ ex.pend = <<>>
    /\ ex' = [ex EXCEPT !.child = "exited", !.cstat = code]
    /\ UNCHANGED <<wire, execOthers>>

\* the PTY master is gone: the session receives SIGHUP, and a child that
\* does not ignore it exits
ChildHup ==
    /\ ex.child = "running"
    /\ ex.master = "dropped"
    /\ ex.hup
    /\ ex' = [ex EXCEPT !.child = "exited", !.cstat = 129, !.pend = <<>>]
    /\ UNCHANGED <<wire, execOthers>>

\* the client closes its sending side
ClientEof ==
    /\ ex.client = "open"
    /\ ex.pc \notin {"returned", "done"}
    /\ ex' = [ex EXCEPT !.client = "eof"]
    /\ UNCHANGED <<wire, execOthers>>

\* the client's connection is lost: reads and writes on the substream fail
ClientGone ==
    /\ ex.client # "gone"
    /\ ex.pc \notin {"returned", "done"}
    /\ ex' = [ex EXCEPT !.client = "gone"]
    /\ UNCHANGED <<wire, execOthers>>

\* exec.rs lines 133-161 (stdout_task, stderr_task) and 310-322, terminal.rs
\* lines 107-128: the reader task moves output to the channel
ReaderTask ==
    /\ ex.ran
    /\ ex.pc \notin {"reader", "writer", "returned"}
    /\ ex.mode = "pty" => ex.wt # "none"
    /\ ex.pty # <<>>
    /\ ex' = [ex EXCEPT !.pty = Tail(@), !.queue = Append(@, Head(ex.pty))]
    /\ UNCHANGED <<wire, execOthers>>

\* exec.rs lines 328-336, terminal.rs lines 149-153: the wait thread takes
\* the child's mutex and blocks in wait()
WaitThreadStart ==
    /\ ex.wt = "init"
    /\ ex.lock = "free"
    /\ ex' = [ex EXCEPT !.wt = "waiting", !.lock = "wait"]
    /\ UNCHANGED <<wire, execOthers>>

\* wait() returns: the child is reaped, its code is sent to exit_rx and
\* the mutex is released
WaitThreadReap ==
    /\ ex.wt = "waiting"
    /\ ex.child = "exited"
    /\ ex' = [ex EXCEPT !.wt = "done", !.lock = "free", !.child = "reaped",
                        !.exitch = <<ex.cstat>>]
    /\ UNCHANGED <<wire, execOthers>>

\* exec.rs lines 345-347 and 388, terminal.rs lines 163-165 and 212: the
\* read from the client returns Ok(0) or an error
LoopClientEnd ==
    /\ ex.pc = "loop"
    /\ ex.client # "open"
    /\ ex' = [ex EXCEPT !.pc = Cleanup(ex.mode)[1]]
    /\ UNCHANGED <<wire, execOthers>>

\* exec.rs lines 393-398, terminal.rs lines 217-221: output from the
\* channel is written to the client; a write error ends the loop
LoopOutput ==
    /\ ex.pc = "loop"
    /\ ex.queue # <<>>
    /\ ex' = [ex EXCEPT !.queue = Tail(@),
                        !.pc = IF ex.client = "gone" THEN Cleanup(ex.mode)[1] ELSE @]
    /\ wire' = Write(wire, ex.client, OutBytes(Head(ex.queue)))
    /\ UNCHANGED execOthers

\* exec.rs lines 401-404, terminal.rs lines 224-226: the child has exited
LoopExit ==
    /\ ex.pc = "loop"
    /\ ex.exitch # <<>>
    /\ ex' = [ex EXCEPT !.exitch = <<>>, !.code = ex.exitch[1],
                        !.pc = Cleanup(ex.mode)[1]]
    /\ UNCHANGED <<wire, execOthers>>

\* exec.rs line 411, terminal.rs line 233: drop(pair)
DropPair ==
    /\ ex.pc = "drop"
    /\ ex' = [ex EXCEPT !.master = "dropped", !.pc = After(ex.mode, "drop")]
    /\ UNCHANGED <<wire, execOthers>>

\* exec.rs line 415, terminal.rs line 235: child_arc.lock(), which blocks
\* the handler while the wait thread holds the mutex
LockChild ==
    /\ ex.pc = "lock"
    /\ ex.lock = "free"
    /\ ex' = [ex EXCEPT !.lock = "main", !.pc = After(ex.mode, "lock")]
    /\ UNCHANGED <<wire, execOthers>>

\* exec.rs lines 416-417, terminal.rs lines 236-237: kill the child and
\* release the mutex
KillChild ==
    /\ ex.pc = "kill"
    /\ ex' = [ex EXCEPT !.killed = TRUE, !.lock = "free",
                        !.child = IF @ = "running" THEN "exited" ELSE @,
                        !.cstat = IF ex.child = "running" THEN 137 ELSE @,
                        !.pc = After(ex.mode, "kill")]
    /\ UNCHANGED <<wire, execOthers>>

\* exec.rs line 200: child.wait() returns the status of the child
PipedWait ==
    /\ ex.pc = "wait"
    /\ ex.child = "exited"
    /\ ex' = [ex EXCEPT !.child = "reaped", !.code = ex.cstat,
                        !.pc = Cleanup(ex.mode)[1]]
    /\ UNCHANGED <<wire, execOthers>>

\* exec.rs lines 204-209: the reader tasks have reached the end of the
\* child's pipes
JoinReaders ==
    /\ ex.pc = "join_readers"
    /\ ex.pty = <<>>
    /\ ex' = [ex EXCEPT !.pc = After(ex.mode, "join_readers")]
    /\ UNCHANGED <<wire, execOthers>>

\* exec.rs lines 190-197: output_task writes queued output to the client
\* and ends on a write error
OutputTask ==
    /\ ex.mode = "piped"
    /\ ex.ran
    /\ ~ex.obroke
    /\ ex.queue # <<>>
    /\ ex' = [ex EXCEPT !.queue = Tail(@), !.obroke = (ex.client = "gone")]
    /\ wire' = Write(wire, ex.client, OutBytes(Head(ex.queue)))
    /\ UNCHANGED execOthers

\* exec.rs lines 211-217: output_task has ended
JoinOutput ==
    /\ ex.pc = "join_output"
    /\ ex.queue = <<>> \/ ex.obroke
    /\ ex' = [ex EXCEPT !.pc = After(ex.mode, "join_output")]
    /\ UNCHANGED <<wire, execOthers>>

\* exec.rs lines 219-225 and 419-425: the exit-code record is written
WriteExit ==
    /\ ex.pc = "exit"
    /\ ex' = [ex EXCEPT !.pc = After(ex.mode, "exit")]
    /\ wire' = Write(wire, ex.client, ExitRecord(ex.code))
    /\ UNCHANGED execOthers

\* exec.rs lines 226 and 426, terminal.rs line 238: the writer is shut down
Shutdown ==
    /\ ex.pc = "shutdown"
    /\ ex' = [ex EXCEPT !.shut = TRUE, !.pc = After(ex.mode, "shutdown")]
    /\ UNCHANGED <<wire, execOthers>>

ExecNext ==
    \/ \E ok \in BOOLEAN : OpenPty(ok)
    \/ \E ok \in BOOLEAN : SpawnCommand(ok)
    \/ \E ok \in BOOLEAN : CloneReader(ok)
    \/ \E ok \in BOOLEAN : TakeWriter(ok)
    \/ \E ok \in BOOLEAN : ShellReady(ok)
    \/ ChildWrite
    \/ \E code \in ExitCodes : ChildExit(code)
    \/ ChildHup
    \/ ClientEof
    \/ ClientGone
    \/ ReaderTask
    \/ WaitThreadStart
    \/ WaitThreadReap
    \/ LoopClientEnd
    \/ LoopOutput
    \/ LoopExit
    \/ DropPair
    \/ LockChild
    \/ KillChild
    \/ PipedWait
    \/ JoinReaders
    \/ OutputTask
    \/ JoinOutput
    \/ WriteExit
    \/ Shutdown

\* The runtime runs every task and thread that can take a step; the child
\* and the client are under no obligation, except that a child that does
\* not ignore SIGHUP exits on it.
SpecExec ==
    /\ ExecInit
    /\ [][ExecNext]_vars
    /\ WF_vars(ReaderTask) /\ WF_vars(WaitThreadStart) /\ WF_vars(WaitThreadReap)
    /\ WF_vars(LoopClientEnd) /\ WF_vars(LoopOutput) /\ WF_vars(LoopExit)
    /\ WF_vars(DropPair) /\ WF_vars(LockChild) /\ WF_vars(KillChild)
    /\ WF_vars(WriteExit) /\ WF_vars(Shutdown) /\ WF_vars(ChildHup)

(***************************************************************************)
(* Properties of exec and terminal sessions.                               *)
(***************************************************************************)
\* C14: in an exec session whose command was spawned, nothing is written to
\* the substream after the exit-code record, and when the writer is shut
\* down the exit-code record is the last thing written (unless the client is
\* gone and the write failed).
C14_ExitRecordThenShutdown ==
    ex.mode \in ExecModes =>
        /\ \A i \in 1..Len(wire) : wire[i].k = "exit" => i = Len(wire)
        /\ ex.shut => ex.ran
        /\ (ex.shut /\ ex.client # "gone") =>
               (wire # <<>> /\ wire[Len(wire)].k = "exit")

\* C14 witness: output, then the exit-code record, then the shutdown
C14_Witness ==
    /\ ex.mode \in ExecModes
    /\ ex.shut
    /\ Len(wire) >= 2
    /\ wire[Len(wire)].k = "exit"
    /\ wire[1].k = "out"

\* C15 (as stated): in every exec session, piped and PTY, when the exit-code
\* record is written no output is left in the queue for the client (stated
\* for a client that is connected and has not closed its side).
C15_QueuedOutputBeforeExitRecord ==
    [][(/\ ex.mode \in ExecModes
        /\ ex.client = "open"
        /\ HasExit(wire') /\ ~HasExit(wire))
           => ex.queue = <<>>]_vars

\* C16 (as stated): when the PTY or the spawn fails the client gets one
\* plaintext line and no exit-code record, and a finished session has an
\* exit-code record exactly when its command ran (stated for a client that
\* is still there to receive it).
C16_ExitRecordIffCommandRan ==
    (ex.mode \in ExecModes /\ ex.pc \in {"returned", "done"} /\ ex.client # "gone") =>
        /\ ~ex.ran => (Len(wire) = 1 /\ wire[1].k = "line")
        /\ HasExit(wire) <=> ex.ran

C18_PtySessionEventuallyDestroyed ==
    (/\ ex.mode \in PtyModes
     /\ ex.pc = "loop"
     /\ ex.client # "open" \/ ex.child \in {"exited", "reaped"})
        ~> (ex.pc = "done")

(***************************************************************************)
(* SpecInput: the client-to-PTY direction of a PTY session.  The client    *)
(* sends plain bytes and 5-byte resize frames; the network hands them to   *)
(* the handler in reads of any length.  terminal.rs takes the first five   *)
(* bytes as the initial size; both handlers then run the same loop over    *)
(* input_buf.                                                              *)
(***************************************************************************)
MaxItems == 2
Marker == 255
FrameLen == 5

DefaultSize == <<24, 80>>

Item(k, rows, cols, b) == [k |-> k, rows |-> rows, cols |-> cols, b |-> b]
FrameItem(rows, cols) == Item("frame", rows, cols, 0)
ByteItem(b) == Item("byte", 0, 0, b)

\* u16::from_be_bytes and its inverse
U16FromBe(hi, lo) == hi * 256 + lo
ItemBytes(it) ==
    IF it.k = "frame"
    THEN <<Marker, it.rows \div 256, it.rows % 256, it.cols \div 256, it.cols % 256>>
    ELSE <<it.b>>

RECURSIVE Flatten(_)
Flatten(items) ==
    IF items = <<>> THEN <<>> ELSE ItemBytes(Head(items)) \o Flatten(Tail(items))

Items == {FrameItem(24, 80), FrameItem(50, 120), ByteItem(97)}
Streams == UNION {[1..n -> Items] : n \in 0..MaxItems}

\* what the input direction leaves alone
inputOthers == <<tokenVars, relayVars, proxyVars, sniVars, execVars, hubVars, agentVars, certVars, nodeVars, authVars, lineVars, shellVars, lockVars>>

\* terminal.rs line 24 / exec.rs lines 244-245, 339-341: the handler is about
\* to read from the client
InputInit ==
    /\ tnow = 0
    /\ tissued = NoToken
    /\ tverified = {}
    /\ RelayIdle
    /\ ProxyIdle
    /\ TlsIdle
    /\ ExecIdle
    /\ ServicesIdle
    /\ \E mode \in PtyModes, items \in Streams :
          inp = [Inp(mode, items, Flatten(items)) EXCEPT
                    !.pc = IF mode = "terminal" THEN "first5" ELSE "select",
                    !.init = IF mode = "terminal" THEN <<0, 0>> ELSE DefaultSize]

\* terminal.rs lines 24-34: read_exact of five bytes (at the client's EOF
\* fewer, the error is ignored and the rest of buf stays 0); they give the
\* initial size when the first is 0xFF, and are not looked at again
ReadFirst5 ==
    /\ inp.pc = "first5"
    /\ LET n == IF Len(inp.net) < FrameLen THEN Len(inp.net) ELSE FrameLen
           b == SubSeq(inp.net, 1, n) \o [i \in 1..(FrameLen - n) |-> 0]
       IN  inp' = [inp EXCEPT
                      !.pc = "select",
                      !.net = SubSeq(@, n + 1, Len(@)),
                      !.pos = n,
                      !.init = IF b[1] = Marker
                               THEN <<U16FromBe(b[2], b[3]), U16FromBe(b[4], b[5])>>
                               ELSE DefaultSize]
    /\ UNCHANGED inputOthers

\* terminal.rs lines 163-167, exec.rs lines 345-349: a read returns the next
\* n bytes, which are appended to input_buf
InputRead(n) ==
    /\ inp.pc = "select"
    /\ n \in 1..Len(inp.net)
    /\ inp' = [inp EXCEPT !.pc = "parse",
                          !.buf = @ \o SubSeq(inp.net, 1, n),
                          !.net = SubSeq(@, n + 1, Len(@)),
                          !.pos = @ + n]
    /\ UNCHANGED inputOthers

\* terminal.rs lines 169-210, exec.rs lines 351-386: one pass of
\* `while !input_buf.is_empty()`.  A frame is taken when input_buf starts
\* with 0xFF and holds five bytes; otherwise everything before the next 0xFF
\* goes to the PTY, which is nothing when input_buf starts with 0xFF.
InputParse ==
    /\ inp.pc = "parse"
    /\ IF inp.buf = <<>>
       THEN inp' = [inp EXCEPT !.pc = "select"]
       ELSE IF Len(inp.buf) >= FrameLen /\ inp.buf[1] = Marker
       THEN inp' = [inp EXCEPT
                       !.sizes = Append(@, <<U16FromBe(inp.buf[2], inp.buf[3]),
                                             U16FromBe(inp.buf[4], inp.buf[5])>>),
                       !.buf = SubSeq(@, FrameLen + 1, Len(@))]
       ELSE LET marks == {i \in 1..Len(inp.buf) : inp.buf[i] = Marker}
                next_resize == IF marks = {} THEN Len(inp.buf)
                               ELSE (CHOOSE i \in marks : \A j \in marks : i <= j) - 1
            IN  inp' = [inp EXCEPT
                           !.shell = @ \o SubSeq(inp.buf, 1, next_resize),
                           !.buf = SubSeq(@, next_resize + 1, Len(@))]
    /\ UNCHANGED inputOthers

\* terminal.rs line 165, exec.rs line 347: the client has sent everything and
\* closed; the read returns Ok(0)
InputEof ==
    /\ inp.pc = "select"
    /\ inp.net = <<>>
    /\ inp' = [inp EXCEPT !.pc = "closed"]
    /\ UNCHANGED inputOthers

InputNext ==
    \/ ReadFirst5
    \/ \E n \in 1..(FrameLen * MaxItems) : InputRead(n)
    \/ InputParse
    \/ InputEof

\* the network delivers what the client sent, and the handler's task runs
SpecInput ==
    /\ InputInit
    /\ [][InputNext]_vars
    /\ WF_vars(ReadFirst5)
    /\ WF_vars(\E n \in 1..(FrameLen * MaxItems) : InputRead(n))
    /\ WF_vars(InputParse)
    /\ WF_vars(InputEof)

\* what the client's stream asks for: the plain bytes, the frames' sizes
PlainOf(items) ==
    LET plain == SelectSeq(items, LAMBDA it : it.k = "byte")
    IN  [i \in 1..Len(plain) |-> plain[i].b]
FramesOf(items) ==
    LET frames == SelectSeq(items, LAMBDA it : it.k = "frame")
    IN  [i \in 1..Len(frames) |-> <<frames[i].rows, frames[i].cols>>]
\* in a terminal session a frame at the very start is the initial size
LeadingFrame ==
    IF inp.mode = "terminal" /\ inp.items # <<>> THEN inp.items[1].k = "frame" ELSE FALSE
ExpectedInit ==
    IF LeadingFrame THEN <<inp.items[1].rows, inp.items[1].cols>> ELSE DefaultSize
ExpectedResizes ==
    IF LeadingFrame THEN Tail(FramesOf(inp.items)) ELSE FramesOf(inp.items)

\* a read has ended right after the 0xFF of the frame that is item i
SplitAfterMarker(i) ==
    IF i <= Len(inp.items)
    THEN /\ inp.pc = "parse"
         /\ inp.items[i].k = "frame"
         /\ inp.pos = Len(Flatten([j \in 1..(i - 1) |-> inp.items[j]])) + 1
    ELSE FALSE

\* the resize of the frame that is item i has been made, and no byte of a
\* frame has gone to the PTY
FrameApplied(i) ==
    IF i <= Len(inp.items)
    THEN LET k == Len(FramesOf([j \in 1..i |-> inp.items[j]]))
                  - (IF LeadingFrame THEN 1 ELSE 0)
         IN  IF k \in 1..Len(inp.sizes)
             THEN /\ inp.sizes[k] = <<inp.items[i].rows, inp.items[i].cols>>
                  /\ IsPrefix(inp.shell, PlainOf(inp.items))
             ELSE FALSE
    ELSE FALSE

\* C19 (as stated): a resize frame whose 0xFF arrives at the end of one read
\* and whose other bytes arrive in a later read is parsed as one resize with
\* the frame's rows and cols, and none of its bytes go to the PTY.
C19_SplitFrameParsedAsOneResize ==
    \A i \in 1..MaxItems : SplitAfterMarker(i) ~> FrameApplied(i)

\* C20 (as stated): every resize frame the client sends, wherever it is in
\* the stream, gives one PTY resize (in a terminal session the initial size,
\* for a frame at the very start) and is not forwarded, and every other byte,
\* the first five bytes of a terminal session included, is forwarded in order.
C20_FramesResizeAndBytesForwarded ==
    inp.pc \in {"select", "parse", "closed"} =>
        /\ inp.init = ExpectedInit
        /\ IsPrefix(inp.sizes, ExpectedResizes)
        /\ IsPrefix(inp.shell, PlainOf(inp.items))
        /\ inp.pc = "closed" =>
              (inp.sizes = ExpectedResizes /\ inp.shell = PlainOf(inp.items))

(***************************************************************************)
(* SpecHub: the "system-metrics" topic of the agent's shared-producer hub  *)
(* and the metrics handlers subscribed to it.  The hub (rest/shared.rs) is *)
(* not part of the sources at hand; it is modelled as section 4.7 of the   *)
(* specification describes it: a subscriber count, one producer task that  *)
(* runs while the count is positive, and a bounded broadcast queue whose   *)
(* send does not wait for receivers.                                       *)
(***************************************************************************)
QueueCap == 1
MaxSent == 3

\* every part of the program outside the agent's and server's services
CoreIdle ==
    /\ tnow = 0
    /\ tissued = NoToken
    /\ tverified = {}
    /\ RelayIdle
    /\ ProxyIdle
    /\ SessionsIdle

hubOthers == <<tokenVars, relayVars, proxyVars, sniVars, execVars, inputVars, agentVars, certVars, nodeVars, authVars, lineVars, shellVars, lockVars>>

\* subscribe: one more subscriber; the first one spawns the producer
HubSubscribe(h) == [h EXCEPT !.count = @ + 1, !.producer = "running"]

\* a subscription is dropped while the producer keeps running (not the hub's behaviour)
HubUnsubscribeKeepsProducer(h) == [h EXCEPT !.count = @ - 1]

\* dropping a subscription: one subscriber less; the last one stops the producer
HubUnsubscribe(h) ==
    [h EXCEPT !.count = @ - 1,
              !.producer = IF h.count = 1 THEN "stopped" ELSE @]

\* the subscribers that hold a receiver
Holding(ss) == {s \in SubIds : ss[s].pc \in {"recv", "write", "drop"}}

\* a send that waits until every receiver has room (not the hub's behaviour)
CanSendWaits(h, ss) == \A s \in Holding(ss) : h.sent - ss[s].cursor < QueueCap

\* the producer's send on the broadcast queue never waits for a receiver
CanSend(h, ss) == TRUE

\* the receiver has missed more messages than the queue holds
Lagging(h, sb) == h.sent - sb.cursor > QueueCap

HubInit ==
    /\ CoreIdle
    /\ AgentIdle
    /\ CertIdle
    /\ NodeIdle
    /\ ExtrasIdle
    /\ HubIdle

\* metrics.rs line 10: acquire_metrics_task("system-metrics"); the receiver
\* sees the messages sent from now on
Subscribe(s) ==
    /\ subs[s].pc = "idle"
    /\ hub' = HubSubscribe(hub)
    /\ subs' = [subs EXCEPT ![s] = Subscriber("recv", hub.sent)]
    /\ UNCHANGED hubOthers

\* the producer task broadcasts the next sample
Produce ==
    /\ hub.producer = "running"
    /\ hub.sent < MaxSent
    /\ CanSend(hub, subs)
    /\ hub' = [hub EXCEPT !.sent = @ + 1]
    /\ UNCHANGED <<subs, hubOthers>>

\* metrics.rs line 13: recv() returns the next message, or the lagged error
\* that ends the `while let Ok(..)` loop
Recv(s) ==
    /\ subs[s].pc = "recv"
    /\ subs[s].cursor < hub.sent
    /\ subs' = [subs EXCEPT ![s] =
                  IF Lagging(hub, subs[s])
                  THEN [@ EXCEPT !.pc = "drop", !.lagged = TRUE]
                  ELSE [@ EXCEPT !.pc = "write", !.cursor = @ + 1]]
    /\ UNCHANGED <<hub, hubOthers>>

\* metrics.rs lines 14-19: the line and its "\n" are written to the client
WriteOk(s) ==
    /\ subs[s].pc = "write"
    /\ subs' = [subs EXCEPT ![s].pc = "recv"]
    /\ UNCHANGED <<hub, hubOthers>>

\* metrics.rs lines 14-19: a write fails (the client is gone) and the loop ends
WriteErr(s) ==
    /\ subs[s].pc = "write"
    /\ subs' = [subs EXCEPT ![s].pc = "drop"]
    /\ UNCHANGED <<hub, hubOthers>>

\* metrics.rs line 23: drop(rx)
DropRx(s) ==
    /\ subs[s].pc = "drop"
    /\ hub' = HubUnsubscribe(hub)
    /\ subs' = [subs EXCEPT ![s].pc = "shutdown"]
    /\ UNCHANGED hubOthers

\* metrics.rs line 26: io.shutdown()
IoShutdown(s) ==
    /\ subs[s].pc = "shutdown"
    /\ subs' = [subs EXCEPT ![s].pc = "closed"]
    /\ UNCHANGED <<hub, hubOthers>>

HubNext ==
    \/ Produce
    \/ \E s \in SubIds :
          \/ Subscribe(s)
          \/ Recv(s)
          \/ WriteOk(s)
          \/ WriteErr(s)
          \/ DropRx(s)
          \/ IoShutdown(s)

\* the producer and the handlers are tasks of the runtime and get to run;
\* how fast a client takes what is written to it is up to the client
SpecHub ==
    /\ HubInit
    /\ [][HubNext]_vars
    /\ WF_vars(Produce)
    /\ \A s \in SubIds : WF_vars(Recv(s)) /\ WF_vars(DropRx(s)) /\ WF_vars(IoShutdown(s))

\* C21: for the topic, after any interleaving of subscribes and subscription
\* drops, the producer task is running if and only if the subscriber count
\* is greater than zero (and the count is the number of receivers held).
C21_ProducerRunsIffSubscribers ==
    /\ hub.producer = "running" <=> hub.count > 0
    /\ hub.count = Cardinality(Holding(subs))

\* C21 witness: one subscriber has dropped its subscription while another
\* still holds one, and the producer is running
C21_Witness ==
    \E s, t \in SubIds :
        /\ subs[s].pc = "closed"
        /\ subs[t].pc = "recv"
        /\ hub.count = 1
        /\ hub.producer = "running"

\* C22: a subscriber that has fallen behind by more than the queue capacity
\* gets the lagged error and is dropped; the producer is never blocked by a
\* subscriber (it goes on sending whatever the subscribers do); a subscriber
\* that has not fallen behind goes on receiving.
C22_LaggedSubscriberDropped ==
    /\ \A s \in SubIds :
          (subs[s].pc = "recv" /\ Lagging(hub, subs[s]))
             ~> (subs[s].lagged /\ subs[s].pc = "closed")
    /\ (hub.producer = "running") ~> (hub.sent = MaxSent \/ hub.producer = "stopped")
    /\ \A s \in SubIds :
          (subs[s].pc = "recv" /\ subs[s].cursor < hub.sent /\ ~Lagging(hub, subs[s]))
             ~> (subs[s].pc = "write" \/ subs[s].lagged)
    /\ [](\A s \in SubIds : subs[s].lagged => subs[s].cursor + QueueCap < hub.sent)

\* C22 witness: one subscriber was dropped as lagged, the producer has sent
\* everything and another subscriber has received the last message and
\* written it to its client
C22_Witness ==
    \E s, t \in SubIds :
        /\ subs[s].lagged
        /\ subs[s].pc = "closed"
        /\ hub.sent = MaxSent
        /\ subs[t].cursor = MaxSent
        /\ subs[t].pc = "recv"
        /\ ~subs[t].lagged

(***************************************************************************)
(* SpecAgent: the agent daemon.  run() races login_and_run against         *)
(* ctrl_c; login_and_run registers the device and then opens control       *)
(* tunnels in a loop; connect_control_tunnel hands the session to a        *)
(* spawned task and returns.                                               *)
(* SpecShutdown: the substream handlers of the agent around a SIGINT.      *)
(***************************************************************************)
MaxClock == 6
MaxAttempts == 2
RegisterDelay == 1
ErrorDelay == 5
CleanDelay == 1

agentOthers == <<tokenVars, relayVars, proxyVars, sniVars, execVars, inputVars, hubVars, certVars, nodeVars, authVars, lineVars, shellVars, lockVars>>

\* agent.rs line 332: config and system info are loaded, the first
\* register_device call is being made
AgentInit ==
    /\ CoreIdle
    /\ HubIdle
    /\ CertIdle
    /\ NodeIdle
    /\ ExtrasIdle
    /\ clk = 0
    /\ cancelled = FALSE
    /\ proc = "running"
    /\ sup = [Sup("register") EXCEPT !.regs = 1]
    /\ stasks = <<>>
    /\ hs = [k \in HKinds |-> Handler("none", "none", "none")]

\* time passes
Tick ==
    /\ proc = "running"
    /\ clk < MaxClock
    /\ clk' = clk + 1
    /\ UNCHANGED <<cancelled, proc, sup, stasks, hs, agentOthers>>

\* agent.rs lines 333-337: register_device returns; on failure sleep 1 s
RegisterDevice(ok) ==
    /\ proc = "running"
    /\ sup.pc = "register"
    /\ sup' = IF ok THEN [sup EXCEPT !.pc = "check"]
              ELSE [sup EXCEPT !.pc = "reg_sleep", !.wake = clk + RegisterDelay]
    /\ UNCHANGED <<clk, cancelled, proc, stasks, hs, agentOthers>>

\* agent.rs lines 337, 332-333: the sleep is over, the next register_device
\* call is made
RegSleepDone ==
    /\ proc = "running"
    /\ sup.pc = "reg_sleep"
    /\ clk >= sup.wake
    /\ sup.regs < MaxAttempts
    /\ sup' = [sup EXCEPT !.pc = "register", !.regs = @ + 1]
    /\ UNCHANGED <<clk, cancelled, proc, stasks, hs, agentOthers>>

\* agent.rs lines 340-346: the top of the tunnel loop: leave it when the
\* token is cancelled, otherwise call connect_control_tunnel
LoopCheck ==
    /\ proc = "running"
    /\ sup.pc = "check"
    /\ cancelled \/ sup.conns < MaxAttempts
    /\ IF cancelled
       THEN /\ sup' = [sup EXCEPT !.pc = "returned"]
            /\ UNCHANGED stasks
       ELSE /\ sup' = [sup EXCEPT !.pc = "connect", !.conns = @ + 1]
            /\ stasks' = [i \in DOMAIN stasks |->
                            IF stasks[i].st \in {"error", "closed"}
                            THEN [stasks[i] EXCEPT !.retried = TRUE]
                            ELSE stasks[i]]
    /\ UNCHANGED <<clk, cancelled, proc, hs, agentOthers>>

\* the sleep that follows a result of connect_control_tunnel
RetryDelay(res) == IF res = "err" THEN ErrorDelay ELSE CleanDelay

\* agent.rs lines 345-362 with server.rs lines 264-366: the select! ends.
\* connect_control_tunnel returns Err when the token request, the TCP
\* connect, the TLS handshake or the handshake line fails; otherwise it
\* spawns the task that polls the session and returns Ok at once.  Either
\* way the supervisor then sleeps.  The other branch is the cancelled token.
Connect(res) ==
    /\ proc = "running"
    /\ sup.pc = "connect"
    /\ IF cancelled
       THEN /\ sup' = [sup EXCEPT !.pc = "returned"]
            /\ UNCHANGED stasks
       ELSE /\ sup' = [sup EXCEPT !.pc = "sleep", !.res = res, !.ret = clk,
                                  !.wake = clk + RetryDelay(res)]
            /\ stasks' = IF res = "ok" THEN Append(stasks, SessTask("up", 0))
                         ELSE stasks
    /\ UNCHANGED <<clk, cancelled, proc, hs, agentOthers>>

\* agent.rs lines 350, 354: the sleep is over, back to the top of the loop
SleepDone ==
    /\ proc = "running"
    /\ sup.pc = "sleep"
    /\ clk >= sup.wake
    /\ sup' = [sup EXCEPT !.pc = "check"]
    /\ UNCHANGED <<clk, cancelled, proc, stasks, hs, agentOthers>>

\* server.rs lines 332-363: sess.next() gives an error (the transport
\* failed) or None (the server closed the session); the task ends and
\* nothing is told to login_and_run
SessionEnd(i, how) ==
    /\ proc = "running"
    /\ i \in DOMAIN stasks
    /\ stasks[i].st = "up"
    /\ stasks' = [stasks EXCEPT ![i] = SessTask(how, clk)]
    /\ UNCHANGED <<clk, cancelled, proc, sup, hs, agentOthers>>

\* what run() leaves of login_and_run when ctrl_c wins the select!, if the
\* future were kept (not what select! does)
SigIntPcKeeps(pc) == pc
\* agent.rs lines 315-321: select! drops the login_and_run future
SigIntPc(pc) == "dropped"

\* agent.rs lines 313-321: SIGINT; run() cancels SHUTDOWN
SigInt ==
    /\ proc = "running"
    /\ ~cancelled
    /\ cancelled' = TRUE
    /\ sup' = [sup EXCEPT !.pc = SigIntPc(@), !.at = sup.pc]
    /\ UNCHANGED <<clk, proc, stasks, hs, agentOthers>>

ChildKinds == {"piped", "pty", "terminal"}
PtyKinds == {"pty", "terminal"}

\* a substream arrives and its handler starts; exec and terminal handlers
\* spawn a child (exec.rs lines 89-120, 262-280; terminal.rs lines 60-80)
HandlerStart(k) ==
    /\ proc = "running"
    /\ hs[k].st = "none"
    /\ hs' = [hs EXCEPT ![k] =
                Handler("running", "open", IF k \in ChildKinds THEN "running" ELSE "none")]
    /\ UNCHANGED <<clk, cancelled, proc, sup, stasks, agentOthers>>

\* the handler comes to its own end (its client closed, its child exited)
\* and cleans up
HandlerFinish(k) ==
    /\ proc = "running"
    /\ hs[k].st = "running"
    /\ hs' = [hs EXCEPT ![k] =
                Handler("done", "closed", IF k \in ChildKinds THEN "dead" ELSE "none")]
    /\ UNCHANGED <<clk, cancelled, proc, sup, stasks, agentOthers>>

\* agent.rs lines 322-323: run() returns and the process ends.  No handler
\* looks at SHUTDOWN (server.rs 332-363, exec.rs, terminal.rs, metrics.rs),
\* so the handlers still running are dropped where they are: their
\* substreams close with the process, their cleanup code does not run.  A
\* piped child (exec.rs 89-93, no kill_on_drop) is left running; a PTY child
\* gets SIGHUP when the master closes and dies or not (hup).
ProcessExit(hup) ==
    /\ proc = "running"
    /\ cancelled \/ sup.pc = "returned"
    /\ proc' = "exited"
    /\ hs' = [k \in HKinds |->
                IF hs[k].st = "running"
                THEN Handler("dropped", "closed",
                             IF k \in PtyKinds /\ hup THEN "dead" ELSE hs[k].child)
                ELSE hs[k]]
    /\ stasks' = [i \in DOMAIN stasks |->
                    IF stasks[i].st = "up" THEN SessTask("dropped", clk) ELSE stasks[i]]
    /\ UNCHANGED <<clk, cancelled, sup, agentOthers>>

AgentNext ==
    \/ Tick
    \/ \E ok \in BOOLEAN : RegisterDevice(ok)
    \/ RegSleepDone
    \/ LoopCheck
    \/ \E res \in {"err", "ok"} : Connect(res)
    \/ SleepDone
    \/ \E i \in 1..MaxAttempts, how \in {"error", "closed"} : SessionEnd(i, how)
    \/ SigInt
    \/ \E hup \in BOOLEAN : ProcessExit(hup)

SpecAgent == AgentInit /\ [][AgentNext]_vars

ShutdownNext ==
    \/ \E k \in HKinds : HandlerStart(k) \/ HandlerFinish(k)
    \/ SigInt
    \/ \E hup \in BOOLEAN : ProcessExit(hup)

\* once run() has cancelled the token it returns
SpecShutdown ==
    /\ AgentInit
    /\ [][ShutdownNext]_vars
    /\ WF_vars(\E hup \in BOOLEAN : ProcessExit(hup))

\* a control-tunnel attempt starts in this step
AttemptStarts == sup'.conns > sup.conns

\* C23 (as stated): after registration, an attempt that follows a tunnel
\* that ended with an error comes 5 s or more after that end, one that
\* follows a clean close 1 s or more after it; ends are the failed attempts
\* and the ends of established sessions.
C23_RetryAfterErrorWaitsFive ==
    [][AttemptStarts =>
          /\ sup.res = "err" => clk >= sup.ret + ErrorDelay
          /\ \A i \in DOMAIN stasks :
                ~stasks[i].retried =>
                   /\ stasks[i].st = "error" => clk >= stasks[i].ended + ErrorDelay
                   /\ stasks[i].st = "closed" => clk >= stasks[i].ended + CleanDelay]_vars

\* C24 (as stated): while a control session is established and healthy the
\* supervisor starts no other control-tunnel attempt.
C24_NoSecondTunnelWhileHealthy ==
    [][AttemptStarts => \A i \in DOMAIN stasks : stasks[i].st # "up"]_vars

\* C25: once SHUTDOWN is cancelled the supervisor has left its loops and no
\* registration or control-tunnel attempt is started, in whichever phase the
\* cancellation arrived.
C25_NoAttemptAfterCancel ==
    [][/\ cancelled => (sup'.regs = sup.regs /\ sup'.conns = sup.conns)
       /\ cancelled' => sup'.pc \in {"dropped", "returned"}]_vars

\* C25 witness: the cancellation arrived while the supervisor slept before a
\* retry, after a failed attempt
C25_Witness ==
    /\ cancelled
    /\ sup.at = "sleep"
    /\ sup.res = "err"
    /\ sup.pc = "dropped"

\* C26 (as stated): after the cancellation every handler that was running
\* has closed its substream and its child process is gone.
C26_HandlersCloseOnCancel ==
    \A k \in HKinds :
        (cancelled /\ hs[k].st = "running")
            ~> (hs[k].stream = "closed" /\ hs[k].child # "running")

(***************************************************************************)
(* SpecCert: renewal runs of the wildcard certificate.  Time is counted in *)
(* hours.  A run is maybe_renew_wildcard: the checks, the ACME exchange,   *)
(* the two file writes, and the update of last_failure.                    *)
(***************************************************************************)
MaxHours == 13
MaxRuns == 3
CooldownHours == 12

certOthers == <<tokenVars, relayVars, proxyVars, sniVars, execVars, inputVars, hubVars, agentVars, nodeVars, authVars, lineVars, shellVars, lockVars>>

CertInit ==
    /\ CoreIdle
    /\ HubIdle
    /\ AgentIdle
    /\ NodeIdle
    /\ ExtrasIdle
    /\ CertIdle

\* no cooldown at all (not the code's check)
CooldownNever(rec, now) == FALSE
\* certificate.rs lines 283-295: last_failure exists and is younger than
\* COOLDOWN_HOURS
CooldownActive(rec, now) == rec.exists /\ now - rec.ts < CooldownHours

\* only the A record is looked up (not the code's check)
HasDnsRecordsAOnly(env) == env.a
\* certificate.rs lines 316-330: the A record and the TXT record resolve
HasDnsRecords(env) == env.a /\ env.txt

\* certificate.rs lines 266-302: the result of check_can_attempt_renewal
CheckCanAttemptRenewal(env, rec, now) ==
    IF env.valid THEN "skip-renewal-valid"
    ELSE IF CooldownActive(rec, now) THEN "skip-renewal-recent-failure"
    ELSE IF ~HasDnsRecords(env) THEN "skip-renewal-no-dns"
    ELSE "ok"

CertTick ==
    /\ cnow < MaxHours
    /\ cnow' = cnow + 1
    /\ UNCHANGED <<certs, renew, certOthers>>

\* a renewal run starts: maybe_renew_wildcard is called.  env is what its
\* checks are going to find: whether the installed certificate parses and
\* has more than 10 days left, and which DNS records resolve
RenewStart(env) ==
    /\ renew.pc = "idle"
    /\ renew.runs < MaxRuns
    /\ renew' = [renew EXCEPT !.pc = "check", !.runs = @ + 1, !.env = env,
                              !.attempted = FALSE, !.result = "none",
                              !.why = "none", !.before = certs.last_failure]
    /\ UNCHANGED <<cnow, certs, certOthers>>

\* certificate.rs lines 95-100: check_can_attempt_renewal; on Err the run
\* returns Ok(()), otherwise inner_acme_renew is called
CheckStep ==
    /\ renew.pc = "check"
    /\ LET why == CheckCanAttemptRenewal(renew.env, certs.last_failure, cnow)
       IN  renew' = IF why = "ok"
                    THEN [renew EXCEPT !.pc = "acme", !.attempts = @ + 1,
                                       !.attempted = TRUE, !.why = why]
                    ELSE [renew EXCEPT !.pc = "idle", !.result = "ok", !.why = why]
    /\ UNCHANGED <<cnow, certs, certOthers>>

\* certificate.rs lines 115-243: the ACME exchange ends with an error (any
\* of its `?` or status checks), before a file is written
AcmeFail ==
    /\ renew.pc = "acme"
    /\ renew' = [renew EXCEPT !.pc = "mark"]
    /\ UNCHANGED <<cnow, certs, certOthers>>

\* certificate.rs lines 245-247: fs::write of fullchain.pem creates
\* (truncates) the file and then writes the new chain into it
WriteCertBegin ==
    /\ renew.pc = "acme"
    /\ certs' = [certs EXCEPT !.fullchain = PemFile(renew.attempts, FALSE)]
    /\ renew' = [renew EXCEPT !.pc = "cert_write"]
    /\ UNCHANGED <<cnow, certOthers>>

WriteCertEnd(ok) ==
    /\ renew.pc = "cert_write"
    /\ certs' = IF ok THEN [certs EXCEPT !.fullchain.complete = TRUE] ELSE certs
    /\ renew' = [renew EXCEPT !.pc = IF ok THEN "key" ELSE "mark"]
    /\ UNCHANGED <<cnow, certOthers>>

\* certificate.rs lines 249-256: the same for privkey.pem
WriteKeyBegin ==
    /\ renew.pc = "key"
    /\ certs' = [certs EXCEPT !.privkey = PemFile(renew.attempts, FALSE)]
    /\ renew' = [renew EXCEPT !.pc = "key_write"]
    /\ UNCHANGED <<cnow, certOthers>>

WriteKeyEnd(ok) ==
    /\ renew.pc = "key_write"
    /\ certs' = IF ok THEN [certs EXCEPT !.privkey.complete = TRUE] ELSE certs
    /\ renew' = [renew EXCEPT !.pc = IF ok THEN "clear" ELSE "mark"]
    /\ UNCHANGED <<cnow, certOthers>>

\* certificate.rs lines 103-106, 311-314: clear_acme_failure, return Ok
ClearAcmeFailure ==
    /\ renew.pc = "clear"
    /\ certs' = [certs EXCEPT !.last_failure = NoFailure]
    /\ renew' = [renew EXCEPT !.pc = "idle", !.result = "ok"]
    /\ UNCHANGED <<cnow, certOthers>>

\* certificate.rs lines 107-110, 305-308: mark_acme_failure, return Err
MarkAcmeFailure ==
    /\ renew.pc = "mark"
    /\ certs' = [certs EXCEPT !.last_failure = FailureAt(cnow)]
    /\ renew' = [renew EXCEPT !.pc = "idle", !.result = "err"]
    /\ UNCHANGED <<cnow, certOthers>>

CertNext ==
    \/ CertTick
    \/ \E valid, a, txt \in BOOLEAN : RenewStart(Env(valid, a, txt))
    \/ CheckStep
    \/ AcmeFail
    \/ WriteCertBegin
    \/ \E ok \in BOOLEAN : WriteCertEnd(ok)
    \/ WriteKeyBegin
    \/ \E ok \in BOOLEAN : WriteKeyEnd(ok)
    \/ ClearAcmeFailure
    \/ MarkAcmeFailure

SpecCert == CertInit /\ [][CertNext]_vars

C28_MissingDnsSkipsQuietly ==
    (renew.runs > 0 /\ ~(renew.env.a /\ renew.env.txt)) =>
        /\ ~renew.attempted
        /\ certs.last_failure = renew.before
        /\ renew.pc \in {"check", "idle"}
        /\ renew.pc = "idle" => renew.result = "ok"

\* C28 witness: a run has ended at the DNS check, with the A record there
\* and the TXT record missing, while a failure older than the cooldown is
\* on record
C28_Witness ==
    /\ renew.pc = "idle"
    /\ renew.why = "skip-renewal-no-dns"
    /\ renew.env.a
    /\ ~renew.env.txt
    /\ certs.last_failure.exists

\* C29 (as stated): at every moment fullchain.pem and privkey.pem are both
\* complete files.
C29_CertFilesAlwaysComplete ==
    certs.fullchain.complete /\ certs.privkey.complete

(***************************************************************************)
(* SpecNode: create and update operations on agent records.  A scope is a  *)
(* pair <<kind, id>>, written "kind:id" by the program.                    *)
(***************************************************************************)
MaxScopes == 2

nodeOthers == <<tokenVars, relayVars, proxyVars, sniVars, execVars, inputVars, hubVars, agentVars, certVars, authVars, lineVars, shellVars, lockVars>>

\* node.rs line 207: format!("node:{}", node_id)
SelfScope(id) == <<"node", id>>

Scopes == {SelfScope(id) : id \in DocIds} \cup {<<"user", "u1">>}
ScopeLists == UNION {[1..n -> Scopes] : n \in 0..MaxScopes}

Contains(list, x) == \E i \in 1..Len(list) : list[i] = x

\* node.rs lines 207-218: the allowed_scopes of a new record
CreateScopes(id, allowed_scopes) ==
    IF Contains(allowed_scopes, SelfScope(id))
    THEN allowed_scopes
    ELSE Append(allowed_scopes, SelfScope(id))

\* node.rs lines 124-165: the "$set" of an update, applied to a record:
\* fields that are Some replace the record's fields
ApplyUpdate(doc, owner_scope, allowed_scopes) ==
    [doc EXCEPT
        !.owner_scope = IF owner_scope.some THEN owner_scope.v ELSE @,
        !.allowed_scopes = IF allowed_scopes.some THEN allowed_scopes.v ELSE @]

Some(v) == [some |-> TRUE, v |-> v]
NoScope == [some |-> FALSE, v |-> <<"none", "">>]
NoList == [some |-> FALSE, v |-> <<>>]

NodeInit ==
    /\ CoreIdle
    /\ HubIdle
    /\ AgentIdle
    /\ CertIdle
    /\ NodeIdle
    /\ ExtrasIdle

\* node.rs lines 201-240: NodeDoc::create_from; insert_one fails on an id
\* that is taken
CreateFrom(id, owner_scope, allowed_scopes) ==
    /\ ~docs[id].exists
    /\ docs' = [docs EXCEPT ![id] = NodeDoc(owner_scope, CreateScopes(id, allowed_scopes))]
    /\ UNCHANGED nodeOthers

\* api/node.rs lines 97-112: update_node_by_id; the update document of
\* to_update_doc is applied to the record the caller has access to
UpdateNodeById(id, owner_scope, allowed_scopes) ==
    /\ docs[id].exists
    /\ docs' = [docs EXCEPT ![id] = ApplyUpdate(@, owner_scope, allowed_scopes)]
    /\ UNCHANGED nodeOthers

NodeNext ==
    \E id \in DocIds :
        \/ \E o \in Scopes, l \in ScopeLists : CreateFrom(id, o, l)
        \/ \E o \in {NoScope} \cup {Some(x) : x \in Scopes},
              l \in {NoList} \cup {Some(x) : x \in ScopeLists} :
                 UpdateNodeById(id, o, l)

SpecNode == NodeInit /\ [][NodeNext]_vars

\* C30 (as stated): after any sequence of create and update operations on
\* an agent record, the record's own self-scope is in its allowed_scopes.
C30_SelfScopeAlwaysMember ==
    \A id \in DocIds :
        docs[id].exists => Contains(docs[id].allowed_scopes, SelfScope(id))

(***************************************************************************)
(* SpecAuth: one agent's authorization request.  An administrator accepts  *)
(* or declines it while the agent polls /request/check, possibly with      *)
(* several requests in flight.  Each database call is one step.            *)
(***************************************************************************)
authOthers == <<tokenVars, relayVars, proxyVars, sniVars, execVars, inputVars, hubVars, agentVars, certVars, nodeVars, lineVars, shellVars, lockVars>>

AuthInit ==
    /\ CoreIdle
    /\ HubIdle
    /\ AgentIdle
    /\ CertIdle
    /\ NodeIdle
    /\ AuthIdle
    /\ LineIdle
    /\ ShellIdle
    /\ LockIdle

\* auth.rs lines 141-173: handle_auth_request; accept sets approved, a
\* decline deletes the request; a request that is not found is an error
HandleAuthRequest(accept) ==
    /\ areq \in {"pending", "approved"}
    /\ areq' = IF accept THEN "approved" ELSE "declined"
    /\ UNCHANGED <<akeys, anode, chk>>
    /\ UNCHANGED authOthers

\* auth.rs lines 73-93: find_one; no request is not_found, a request that
\* is not approved answers "pending"
CheckFind(i) ==
    /\ chk[i].pc = "idle"
    /\ chk' = [chk EXCEPT ![i] =
          IF areq \in {"declined", "consumed"} THEN Check("done", "not_found", NoKey)
          ELSE IF areq = "pending" THEN Check("done", "pending", NoKey)
          ELSE Check("delete", "none", NoKey)]
    /\ UNCHANGED <<areq, akeys, anode>>
    /\ UNCHANGED authOthers

\* auth.rs lines 96-99: delete_one; the number of documents deleted is not
\* looked at
CheckDelete(i) ==
    /\ chk[i].pc = "delete"
    /\ areq' = IF areq \in {"pending", "approved"} THEN "consumed" ELSE areq
    /\ chk' = [chk EXCEPT ![i].pc = "key"]
    /\ UNCHANGED <<akeys, anode>>
    /\ UNCHANGED authOthers

\* auth.rs lines 104-116: ApiKeyDoc::create(..).await?; a new key is stored,
\* or the call fails and the handler returns the error
CheckCreateKey(i, ok) ==
    /\ chk[i].pc = "key"
    /\ akeys' = IF ok THEN akeys \cup {i} ELSE akeys
    /\ chk' = [chk EXCEPT ![i] =
          IF ok THEN Check("node", "none", i) ELSE Check("done", "error", NoKey)]
    /\ UNCHANGED <<areq, anode>>
    /\ UNCHANGED authOthers

\* auth.rs lines 119-130 and node.rs lines 201-240: NodeDoc::create_from
\* with id = request.node_id; insert_one fails when a record with that id
\* is there, and may fail otherwise; on success the handler answers
\* "approved" with the key (lines 132-138)
CheckCreateNode(i, ok) ==
    /\ chk[i].pc = "node"
    /\ LET stored == ok /\ ~anode.exists
       IN /\ anode' = IF stored THEN [exists |-> TRUE, api_key_id |-> chk[i].key]
                      ELSE anode
          /\ chk' = [chk EXCEPT ![i] =
                IF stored THEN Check("done", "approved", chk[i].key)
                ELSE Check("done", "error", NoKey)]
    /\ UNCHANGED <<areq, akeys>>
    /\ UNCHANGED authOthers

AuthNext ==
    \/ \E accept \in BOOLEAN : HandleAuthRequest(accept)
    \/ \E i \in Checks :
          \/ CheckFind(i)
          \/ CheckDelete(i)
          \/ \E ok \in BOOLEAN : CheckCreateKey(i, ok)
          \/ \E ok \in BOOLEAN : CheckCreateNode(i, ok)

SpecAuth == AuthInit /\ [][AuthNext]_vars

\* C31 (as stated): the approved request is deleted only after the agent
\* record exists: in no state is the request consumed by a check while
\* there is no agent record.
C31_RequestGoneOnlyWithRecord ==
    areq = "consumed" => anode.exists

\* C39 (as stated): an approved request yields at most one API key and one
\* agent record: at most one check answers with a key, and once the checks
\* have returned every key created is the one the agent record references.
C39_AtMostOneKeyAndRecord ==
    /\ Cardinality(akeys) <= 1
    /\ Cardinality({i \in Checks : chk[i].res = "approved"}) <= 1
    /\ (\A i \in Checks : chk[i].pc \in {"idle", "done"}) =>
          \A k \in akeys : anode.exists /\ anode.api_key_id = k

(***************************************************************************)
(* SpecDemux: the agent's stream handler on a substream whose first line   *)
(* is longer than the 16 bytes of its peek buffer.  The other end of the   *)
(* session writes the line byte by byte; the handler is the one of         *)
(* SpecProxy.                                                              *)
(***************************************************************************)
MaxExtra == 1
Fill(ch, n) == [i \in 1..n |-> ch]
HeadBytes == UNION {[1..n -> {"8", "0"}] : n \in 0..2}
TailBytes == UNION {[1..n -> {"8", "0", "x"}] : n \in 0..1}
\* lines with more than PeekLen bytes before the newline
LongLines ==
    {h \o Fill(ch, PeekLen + e - Len(h) - Len(t)) \o t \o <<LF>> :
        h \in HeadBytes, ch \in {"0", " ", "x"}, t \in TailBytes, e \in 1..MaxExtra}

DemuxInit ==
    /\ tnow = 0
    /\ tissued = NoToken
    /\ tverified = {}
    /\ RelayIdle
    /\ \E line \in LongLines : srv = Srv("raw", 0, line, line, 0, 0, <<>>, FALSE)
    /\ sub = NoSub
    /\ \E reply \in ReplyBytes :
          agt = Agt("peek", 0, 0, <<>>, FALSE, reply, reply)
    /\ SessionsIdle
    /\ ServicesIdle

\* client server.rs line 333: the stream yielded by sess.next() receives
\* the next byte its opener has written
StreamWrite ==
    /\ srv.pc = "raw"
    /\ srv.inbound # <<>>
    /\ ~sub.rst
    /\ sub' = [sub EXCEPT !.s2a = Append(@, Head(srv.inbound))]
    /\ srv' = [srv EXCEPT !.inbound = Tail(@), !.up = @ + 1]
    /\ UNCHANGED <<agt, proxyOthers>>

\* the opener has written the line and closes its sending side
StreamFin ==
    /\ srv.pc = "raw"
    /\ srv.inbound = <<>>
    /\ ~sub.rst /\ ~sub.s2aFin
    /\ sub' = [sub EXCEPT !.s2aFin = TRUE]
    /\ UNCHANGED <<srv, agt, proxyOthers>>

DemuxNext ==
    \/ StreamWrite
    \/ StreamFin
    \/ AgentPeek
    \/ AgentConnect
    \/ AgentUp
    \/ AgentUpEof
    \/ AgentDown
    \/ AgentDownEof
    \/ AgentDone

SpecDemux == DemuxInit /\ [][DemuxNext]_vars

\* the bytes of a stream before its first newline
RECURSIVE FirstLine(_)
FirstLine(s) ==
    IF s = <<>> \/ Head(s) = LF THEN <<>> ELSE <<Head(s)>> \o FirstLine(Tail(s))

\* C32 (as stated): on a substream whose header line is longer than 16
\* bytes the agent makes no local connection, and when its handler has
\* ended the substream is closed.
C32_LongHeaderRejected ==
    Len(FirstLine(srv.sent)) > PeekLen =>
        /\ agt.pc \notin {"copy", "closed"}
        /\ agt.pc = "dropped" => sub.rst

(***************************************************************************)
(* SpecLine: a handler reads the first line of its connection with         *)
(* BufReader::read_line into a String: handle_control_tunnel on the        *)
(* server, handle_exec_io on the agent.  Bytes are counted, not kept.      *)
(***************************************************************************)
MaxOver == 1
ChunkSizes == {1024, 4096}
\* the lengths of the lines the peer sends, without the newline
LineLens == {0, 100} \cup {k * 1024 + d : k \in {4, 8}, d \in 0..MaxOver}

lineOthers == <<tokenVars, relayVars, proxyVars, sniVars, execVars, inputVars, hubVars, agentVars, certVars, nodeVars, authVars, shellVars, lockVars>>

\* valid: the line carries node_id and a token that verifies for it
\* (control), or is the JSON of an ExecRequest (exec); an empty line is
\* neither
LineInit ==
    /\ CoreIdle
    /\ HubIdle
    /\ AgentIdle
    /\ CertIdle
    /\ NodeIdle
    /\ AuthIdle
    /\ ShellIdle
    /\ LockIdle
    /\ \E handler \in {"control", "exec"}, total \in LineLens, valid \in BOOLEAN :
          /\ valid => total > 0
          /\ rdl = Rdl(handler, total, valid)

Min(a, b) == IF a < b THEN a ELSE b

\* the peer writes the next bytes of its line
PeerSend(k) ==
    /\ rdl.pc # "idle"
    /\ ~rdl.eof
    /\ rdl.sent < rdl.total
    /\ rdl' = [rdl EXCEPT !.sent = Min(@ + k, rdl.total)]
    /\ UNCHANGED lineOthers

\* the peer ends its line
PeerNewline ==
    /\ rdl.pc # "idle"
    /\ ~rdl.eof /\ ~rdl.nl
    /\ rdl.sent = rdl.total
    /\ rdl' = [rdl EXCEPT !.nl = TRUE]
    /\ UNCHANGED lineOthers

\* the peer closes its sending side before the newline
PeerClose ==
    /\ rdl.pc # "idle"
    /\ ~rdl.eof /\ ~rdl.nl
    /\ rdl' = [rdl EXCEPT !.eof = TRUE]
    /\ UNCHANGED lineOthers

\* serve.rs line 176, exec.rs line 52: read_line appends every byte that
\* has arrived to the String and goes on reading while it has seen neither
\* a newline nor the end of the stream; nothing bounds the String
ReadLineMore ==
    /\ rdl.pc = "read"
    /\ rdl.line < rdl.sent
    /\ rdl' = [rdl EXCEPT !.line = rdl.sent]
    /\ UNCHANGED lineOthers

\* read_line returns the number of bytes read, the newline included
ReadLineReturn ==
    /\ rdl.pc = "read"
    /\ rdl.line = rdl.sent
    /\ rdl.nl \/ rdl.eof
    /\ rdl' = [rdl EXCEPT !.pc = "parse", !.n = rdl.line + (IF rdl.nl THEN 1 ELSE 0)]
    /\ UNCHANGED lineOthers

\* what the handler parses is the line the peer meant only when all of its
\* bytes were read; a line cut short by the end of the stream is not valid
Parses(r) == r.valid /\ r.line = r.total

\* serve.rs lines 176-198: nothing read is an empty handshake; missing keys
\* or a token that does not verify for node_id end the handler; otherwise
\* the session is registered
ControlLine ==
    /\ rdl.pc = "parse"
    /\ rdl.handler = "control"
    /\ rdl' = [rdl EXCEPT !.pc = "done",
                          !.outcome = IF rdl.n = 0 THEN "empty"
                                      ELSE IF Parses(rdl) THEN "session"
                                      ELSE "rejected"]
    /\ UNCHANGED lineOthers

\* exec.rs lines 56-71: a line that is not the JSON of an ExecRequest is
\* answered with "Invalid request"; otherwise run_with_pty or run_piped
\* spawns the command
ExecLine ==
    /\ rdl.pc = "parse"
    /\ rdl.handler = "exec"
    /\ rdl' = [rdl EXCEPT !.pc = "done",
                          !.outcome = IF Parses(rdl) THEN "spawn" ELSE "invalid"]
    /\ UNCHANGED lineOthers

LineNext ==
    \/ \E k \in ChunkSizes : PeerSend(k)
    \/ PeerNewline
    \/ PeerClose
    \/ ReadLineMore
    \/ ReadLineReturn
    \/ ControlLine
    \/ ExecLine

SpecLine == LineInit /\ [][LineNext]_vars

\* C33 (as stated): the server holds at most 4 KiB of a control handshake
\* line, and a peer whose line has more than 4 KiB before its newline gets
\* no session.
C33_HandshakeLineAtMost4KiB ==
    rdl.handler = "control" =>
        /\ rdl.line <= 4 * 1024
        /\ rdl.total > 4 * 1024 => rdl.outcome # "session"

\* C34 (as stated): for an exec config line larger than 8 KiB no command
\* is spawned.
C34_LargeConfigNotSpawned ==
    (rdl.handler = "exec" /\ rdl.total > 8 * 1024) => rdl.outcome # "spawn"

(***************************************************************************)
(* SpecShell: build_shell_args for every shell path and mode.              *)
(***************************************************************************)
MaxPathLen == 2
PathNames == {"bin", "usr", "bash", "zsh", "fish", "ash", "sh", "dash", ".."}
ShellPaths == UNION {[1..n -> PathNames] : n \in 0..MaxPathLen}
ShellModes == {"InteractiveLogin", "ExecPiped", "ExecPty"}
Commands == {"echo hello", "htop"}

shellOthers == <<tokenVars, relayVars, proxyVars, sniVars, execVars, inputVars, hubVars, agentVars, certVars, nodeVars, authVars, lineVars, lockVars>>

\* shell.rs lines 91-94: Path::file_name is the last component of the path,
\* and None when the path is empty or ends in ".."; unwrap_or("")
Basename(shell) ==
    IF shell = <<>> THEN ""
    ELSE IF shell[Len(shell)] = ".." THEN ""
    ELSE shell[Len(shell)]

SupportsLoginFlagAll(shell) == TRUE
\* shell.rs lines 90-96
SupportsLoginFlag(shell) == Basename(shell) \in {"bash", "zsh", "fish"}

\* shell.rs lines 102-125
BuildShellArgs(shell, mode, command) ==
    CASE mode = "InteractiveLogin" ->
            IF SupportsLoginFlag(shell) THEN <<"-l", "-i">> ELSE <<>>
      [] mode = "ExecPiped" ->
            IF SupportsLoginFlag(shell) THEN <<"-l", "-c", command>>
            ELSE <<"-c", command>>
      [] mode = "ExecPty" -> <<"-c", command>>

ShellInit ==
    /\ CoreIdle
    /\ HubIdle
    /\ AgentIdle
    /\ CertIdle
    /\ NodeIdle
    /\ AuthIdle
    /\ LineIdle
    /\ LockIdle
    /\ \E shell \in ShellPaths, mode \in ShellModes, command \in Commands :
          shl = Shl("call", shell, mode, IF mode = "InteractiveLogin" THEN "" ELSE command, <<>>)

\* terminal.rs, exec.rs: the handler builds the arguments of the shell it
\* is about to spawn
BuildArgs ==
    /\ shl.pc = "call"
    /\ shl' = [shl EXCEPT !.pc = "built",
                          !.args = BuildShellArgs(shl.shell, shl.mode, shl.command)]
    /\ UNCHANGED shellOthers

ShellNext == BuildArgs

SpecShell == ShellInit /\ [][ShellNext]_vars

HasFlag(args, flag) == \E i \in 1..Len(args) : args[i] = flag

\* C35: -l and -i are passed only when the shell's basename is bash, zsh or
\* fish; ash, sh and dash get no arguments in interactive mode and exactly
\* -c <cmd> in exec mode; in PTY exec mode every shell gets exactly
\* -c <cmd>.
C35_LoginFlagsOnlyForLoginShells ==
    shl.pc = "built" =>
        LET name == shl.shell[Len(shl.shell)] IN
        /\ (HasFlag(shl.args, "-l") \/ HasFlag(shl.args, "-i")) =>
              /\ shl.shell # <<>>
              /\ name \in {"bash", "zsh", "fish"}
        /\ (shl.shell # <<>> /\ name \in {"ash", "sh", "dash"}) =>
              /\ shl.mode = "InteractiveLogin" => shl.args = <<>>
              /\ shl.mode = "ExecPiped" => shl.args = <<"-c", shl.command>>
        /\ shl.mode = "ExecPty" => shl.args = <<"-c", shl.command>>

\* C35 witness: the interactive shell is /bin/bash and got -l -i
C35_Witness ==
    /\ shl.pc = "built"
    /\ shl.shell = <<"bin", "bash">>
    /\ shl.mode = "InteractiveLogin"
    /\ shl.args = <<"-l", "-i">>

(***************************************************************************)
(* SpecLock: forward connections to one agent whose control session is     *)
(* registered.  Each runs handle_forward_connection from the point where   *)
(* it has the session's Arc; the agent may stop taking bytes at any time.  *)
(***************************************************************************)
MaxCopied == 2

lockOthers == <<tokenVars, relayVars, proxyVars, sniVars, execVars, inputVars, hubVars, agentVars, certVars, nodeVars, authVars, lineVars, shellVars>>

LockInit ==
    /\ CoreIdle
    /\ HubIdle
    /\ AgentIdle
    /\ CertIdle
    /\ NodeIdle
    /\ AuthIdle
    /\ LineIdle
    /\ ShellIdle
    /\ LockIdle

\* serve.rs lines 232-236: a forward connection has found the session of
\* its agent
FcGetTunnel(f) ==
    /\ fc[f].pc = "idle"
    /\ fc' = [fc EXCEPT ![f].pc = "lock"]
    /\ UNCHANGED <<mtx, stalled, lockOthers>>

\* serve.rs line 238: conn_arc.lock().await; the guard sess is a local of
\* the handler
FcLock(f) ==
    /\ fc[f].pc = "lock"
    /\ mtx = Free
    /\ mtx' = f
    /\ fc' = [fc EXCEPT ![f].pc = "open"]
    /\ UNCHANGED <<stalled, lockOthers>>

\* serve.rs lines 239-241: open_stream; on an error the handler returns,
\* which drops the guard
FcOpenStream(f, ok) ==
    /\ fc[f].pc = "open"
    /\ fc' = [fc EXCEPT ![f].pc = IF ok THEN "header" ELSE "openfail"]
    /\ mtx' = IF ok THEN mtx ELSE Free
    /\ UNCHANGED <<stalled, lockOthers>>

\* serve.rs lines 242-250: write_all of the header completes when the
\* substream takes the bytes; then the byte copy is spawned and the handler
\* returns, which drops the guard; on an error the handler returns as well
FcHeader(f, ok) ==
    /\ fc[f].pc = "header"
    /\ ~stalled
    /\ fc' = [fc EXCEPT ![f].pc = IF ok THEN "copy" ELSE "hdrfail"]
    /\ mtx' = IF mtx = f THEN Free ELSE mtx
    /\ UNCHANGED <<stalled, lockOthers>>

\* serve.rs lines 247-249: the spawned proxy_bidirectional copies a byte
FcCopy(f) ==
    /\ fc[f].pc = "copy"
    /\ ~stalled
    /\ fc[f].copied < MaxCopied
    /\ fc' = [fc EXCEPT ![f].copied = @ + 1]
    /\ UNCHANGED <<mtx, stalled, lockOthers>>

\* proxy_bidirectional returns
FcCopyEnd(f) ==
    /\ fc[f].pc = "copy"
    /\ fc' = [fc EXCEPT ![f].pc = "done"]
    /\ UNCHANGED <<mtx, stalled, lockOthers>>

\* the agent stops or resumes taking bytes from its substreams
AgentStall ==
    /\ stalled' = ~stalled
    /\ UNCHANGED <<mtx, fc, lockOthers>>

LockNext ==
    \/ \E f \in ConnIds : FcGetTunnel(f)
    \/ \E f \in ConnIds : FcLock(f)
    \/ \E f \in ConnIds, ok \in BOOLEAN : FcOpenStream(f, ok)
    \/ \E f \in ConnIds, ok \in BOOLEAN : FcHeader(f, ok)
    \/ \E f \in ConnIds : FcCopy(f)
    \/ \E f \in ConnIds : FcCopyEnd(f)
    \/ AgentStall

SpecLock == LockInit /\ [][LockNext]_vars

\* C36 (as stated): the session's mutex is held only for opening the
\* substream: no connection waits for the mutex while its holder is
\* writing the header or copying bytes.
C36_MutexOnlyForOpen ==
    \A f, g \in ConnIds :
        (mtx = f /\ fc[g].pc = "lock") => fc[f].pc = "open"

(***************************************************************************)
(* Further properties of the relay (Spec, SpecForward).                    *)
(***************************************************************************)
BadKinds == {"missing", "malformed", "expired", "wrongsig", "mismatch", "eof"}

\* C37: the handler of a handshake that is to be rejected (missing keys, a
\* token that is invalid or names another agent, no line at all) leaves
\* the session map as it is and closes no other connection: the session
\* registered for the agent id it names stays registered and open.
C37_RejectedHandshakeKeepsSessions ==
    [][\A c \in CtlIds :
          (/\ ctl[c].pc # "idle"
           /\ ctl[c].line.kind \in BadKinds
           /\ ctl'[c].pc # ctl[c].pc)
          => /\ tunnels' = tunnels
             /\ \A d \in CtlIds \ {c} : ctl'[d] = ctl[d]]_vars

\* C37 witness: a handshake with an expired token for an agent was rejected
\* while a session of that agent is registered and open
C37_Witness ==
    \E c, d \in CtlIds :
        /\ ctl[c].pc = "rejected"
        /\ ctl[c].line.kind = "expired"
        /\ ctl[d].pc = "done"
        /\ ~ctl[d].closed
        /\ <<NodeIdOf(ctl[c].line), d>> \in tunnels

Relayed(f) == fwd[f].pc \in {"proxy", "eof", "subfail"}

\* C38 (as stated): the mapping a connection is relayed under is the one
\* its whitelist check saw: also when the host is registered again while
\* the connection is handled, no peer is relayed under a mapping whose
\* allowed_ips is a set without the peer's IP.
C38_RelayedUnderCheckedMapping ==
    \A f \in FwdIds :
        (Relayed(f) /\ fwd[f].peer # "err" /\ fwd[f].meta.allowed_ips.some)
            => fwd[f].peer \in fwd[f].meta.allowed_ips.ips

(***************************************************************************)
(* A further property of the input loop (SpecInput).                       *)
(***************************************************************************)
\* C40 (as stated): after each read the parsing loop ends and the handler
\* is back at its select, whatever the client sent and however it was
\* split into reads.
C40_ParseLoopTerminates ==
    (inp.pc = "parse") ~> (inp.pc = "select")

====
